---- MODULE Spec2Model ----
(***************************************************************************)
(* A model of ohlcv-hub: the paginated, rate-limit-aware bars fetch client *)
(* (ohlcv_hub/providers/alpaca.py) and the validator                      *)
(* (ohlcv_hub/validate.py).                                               *)
(*                                                                         *)
(* Time is counted in ticks of a quarter second, so the code's 0.25 s     *)
(* safety buffer is 1 tick, its 0.5 s first backoff 2 ticks and its 5.0 s *)
(* retry cap 20 ticks.  Epoch seconds (the X-RateLimit-Reset header) stay *)
(* whole seconds and are converted where the code mixes them with now().  *)
(*                                                                         *)
(* A Python string that the code takes apart (a symbol that is upper-     *)
(* cased and stripped) is a sequence of one-character strings; a string   *)
(* that is only compared or parsed is a TLA+ string.                      *)
(***************************************************************************)
EXTENDS Integers, Sequences, FiniteSets, TLC

(***************************************************************************)
(* Bounds of the model                                                     *)
(***************************************************************************)
\* The server hands out next-page tokens for at most this many pages.
MaxPages == 3

(***************************************************************************)
(* Program constants (alpaca.py:19-27), times in ticks                     *)
(***************************************************************************)
MAX_RETRIES_PER_REQUEST == 5
MAX_SLEEP_SECONDS == 20
BACKOFF_BASE_SECONDS == <<2, 4, 8, 16>>
SAFETY_BUFFER_SECONDS == 1
MAX_PROACTIVE_SLEEP_SECONDS == 40
LIMIT_MIN == 1
LIMIT_MAX == 10000

\* One second, in ticks.
Seconds(s) == s * 4

(***************************************************************************)
(* Python's None, typed, and optional values                               *)
(***************************************************************************)
NoneInt == [has |-> FALSE, v |-> 0]
NoneStr == [has |-> FALSE, v |-> ""]
SomeInt(n) == [has |-> TRUE, v |-> n]
SomeStr(s) == [has |-> TRUE, v |-> s]

Min(a, b) == IF a <= b THEN a ELSE b
Max(a, b) == IF a >= b THEN a ELSE b

(***************************************************************************)
(* JSON values of a page payload: a key may be absent, null or a string    *)
(***************************************************************************)
JAbsent == [k |-> "absent", v |-> ""]
JNull == [k |-> "null", v |-> ""]
JStr(s) == [k |-> "str", v |-> s]

\* dict.get(key): None for an absent key and for a null value.
JsonGet(j) == IF j.k = "str" THEN SomeStr(j.v) ELSE NoneStr

\* `key in data`
JsonHas(j) == j.k # "absent"

\* data[key] for a present key: null reads as None.
JsonIndex(j) == IF j.k = "str" THEN SomeStr(j.v) ELSE NoneStr

(***************************************************************************)
(* Strings the code takes apart: str.upper, str.strip, ",".join            *)
(***************************************************************************)
IsSpace(c) == c \in {" ", "\t"}

UpperChar(c) ==
  CASE c = "a" -> "A"
    [] c = "b" -> "B"
    [] c = "s" -> "S"
    [] OTHER -> c

StrUpper(s) == [i \in 1..Len(s) |-> UpperChar(s[i])]

RECURSIVE LStrip(_)
LStrip(s) ==
  IF s = <<>> THEN <<>>
  ELSE IF IsSpace(Head(s)) THEN LStrip(Tail(s))
  ELSE s

RECURSIVE RStrip(_)
RStrip(s) ==
  IF s = <<>> THEN <<>>
  ELSE IF IsSpace(s[Len(s)]) THEN RStrip(SubSeq(s, 1, Len(s) - 1))
  ELSE s

StrStrip(s) == RStrip(LStrip(s))

RECURSIVE StrJoin(_, _)
StrJoin(sep, parts) ==
  IF parts = <<>> THEN <<>>
  ELSE IF Len(parts) = 1 THEN parts[1]
  ELSE parts[1] \o sep \o StrJoin(sep, Tail(parts))

\* [s.upper().strip() for s in symbols if s.strip()]
RECURSIVE NormalizeSymbols(_)
NormalizeSymbols(symbols) ==
  IF symbols = <<>> THEN <<>>
  ELSE IF StrStrip(Head(symbols)) # <<>>
       THEN <<StrStrip(StrUpper(Head(symbols)))>> \o NormalizeSymbols(Tail(symbols))
       ELSE NormalizeSymbols(Tail(symbols))

\* Mutant: a limit of 0 is accepted.
LimitOutOfRangeZeroOk(limit) == limit < 0 \/ limit > LIMIT_MAX

\* if limit < 1 or limit > 10000: raise ValueError
LimitOutOfRange(limit) == limit < LIMIT_MIN \/ limit > LIMIT_MAX

(***************************************************************************)
(* Dates: a date is <<y, m, d>>, which also stands for its ISO string      *)
(***************************************************************************)
\* _serialize_date: a str is returned as it is, a datetime gives its date's
\* isoformat, a date its isoformat; anything else raises ValueError.
SerializeDateOk(dt) == dt.kind \in {"str", "datetime", "date"}
SerializeDate(dt) ==
  CASE dt.kind = "str" -> dt.v
    [] dt.kind = "datetime" -> <<dt.v[1], dt.v[2], dt.v[3]>>
    [] dt.kind = "date" -> dt.v

(***************************************************************************)
(* HTTP header values.  A header is absent (NoneStr) or carries a raw      *)
(* string; int() and float() are modelled on the strings the server of    *)
(* this model sends.                                                       *)
(***************************************************************************)
\* int(raw.strip()) succeeds
IntParses(raw) == raw \in {"0", "1", "2", " 1 ", "1001", "1020"}
IntOf(raw) ==
  CASE raw = "0" -> 0
    [] raw = "1" -> 1
    [] raw = " 1 " -> 1
    [] raw = "2" -> 2
    [] raw = "1001" -> 1001
    [] raw = "1020" -> 1020

\* float(raw.strip()) succeeds; FloatOf is the value in ticks
FloatParses(raw) == raw \in {"0", "1", "2", " 1 ", "0.5", "7", "-1", "1001", "1020"}
FloatOf(raw) ==
  CASE raw = "0.5" -> 2
    [] raw = "7" -> Seconds(7)
    [] raw = "-1" -> Seconds(-1)
    [] OTHER -> Seconds(IntOf(raw))

\* One X-RateLimit-* header of _parse_rate_limit_headers: an int, or None
\* when the header is missing or unparsable.
ParseRateHeader(h) ==
  IF h.has /\ IntParses(h.v) THEN SomeInt(IntOf(h.v)) ELSE NoneInt

\* Mutant: remaining and reset are taken together or not at all.
ParseRateLimitHeadersTogether(response) ==
  IF ParseRateHeader(response.remaining).has /\ ParseRateHeader(response.reset).has
  THEN [remaining |-> ParseRateHeader(response.remaining),
        reset |-> ParseRateHeader(response.reset)]
  ELSE [remaining |-> NoneInt, reset |-> NoneInt]

\* _parse_rate_limit_headers, its (remaining, reset) part
ParseRateLimitHeaders(response) ==
  [remaining |-> ParseRateHeader(response.remaining),
   reset |-> ParseRateHeader(response.reset)]

\* int(self._now()): whole epoch seconds of a clock reading in ticks
IntNow(now) == now \div 4

\* Mutant: the reset header is looked at before Retry-After.
ComputeSleepSecondsResetFirst(response, attempt_index, now) ==
  IF response.reset.has /\ IntParses(response.reset.v)
  THEN [secs |-> Min(Max(0, Seconds(IntOf(response.reset.v) - IntNow(now))),
                     MAX_SLEEP_SECONDS),
        strategy |-> "X-RateLimit-Reset"]
  ELSE IF response.retry_after.has /\ FloatParses(response.retry_after.v)
  THEN [secs |-> Min(Max(0, FloatOf(response.retry_after.v)), MAX_SLEEP_SECONDS),
        strategy |-> "Retry-After"]
  ELSE IF attempt_index < Len(BACKOFF_BASE_SECONDS)
  THEN [secs |-> Min(BACKOFF_BASE_SECONDS[attempt_index + 1], MAX_SLEEP_SECONDS),
        strategy |-> "backoff"]
  ELSE [secs |-> MAX_SLEEP_SECONDS, strategy |-> "backoff"]

\* _compute_sleep_seconds_for_429: (sleep_seconds, strategy), first match wins
ComputeSleepSecondsFor429(response, attempt_index, now) ==
  IF response.retry_after.has /\ FloatParses(response.retry_after.v)
  THEN [secs |-> Min(Max(0, FloatOf(response.retry_after.v)), MAX_SLEEP_SECONDS),
        strategy |-> "Retry-After"]
  ELSE IF response.reset.has /\ IntParses(response.reset.v)
  THEN [secs |-> Min(Max(0, Seconds(IntOf(response.reset.v) - IntNow(now))),
                     MAX_SLEEP_SECONDS),
        strategy |-> "X-RateLimit-Reset"]
  ELSE IF attempt_index < Len(BACKOFF_BASE_SECONDS)
  THEN [secs |-> Min(BACKOFF_BASE_SECONDS[attempt_index + 1], MAX_SLEEP_SECONDS),
        strategy |-> "backoff"]
  ELSE [secs |-> MAX_SLEEP_SECONDS, strategy |-> "backoff"]

\* The 429 delay reads the clock only on its X-RateLimit-Reset strategy
\* (alpaca.py:158-162).
RetryDelayReadsClock(response) ==
  /\ ~(response.retry_after.has /\ FloatParses(response.retry_after.v))
  /\ response.reset.has /\ IntParses(response.reset.v)

\* What self._now() may return where the code calls it; where it does not,
\* the one value stands for "not read".
ClockReadings(read) == IF read THEN {4000, 4002, 4012} ELSE {0}

\* Mutant: the gate ignores how much quota remains.
ProactiveGateAnyRemaining(last_remaining, last_reset) ==
  last_remaining.has /\ last_reset.has

\* The proactive gate's condition (alpaca.py:262-266)
ProactiveGate(last_remaining, last_reset) ==
  last_remaining.has /\ last_reset.has /\ last_remaining.v <= 1

\* Mutant: the safety buffer is left out.
ProactiveWaitNoBuffer(last_reset, now) ==
  Max(0, Min(Seconds(last_reset.v) - now, MAX_PROACTIVE_SLEEP_SECONDS))

\* wait_secs of the proactive gate (alpaca.py:267-268), in ticks
ProactiveWait(last_reset, now) ==
  Max(0, Min(Seconds(last_reset.v) - now + SAFETY_BUFFER_SECONDS,
             MAX_PROACTIVE_SLEEP_SECONDS))

\* Mutant: the sleep primitive is called with a wait of 0 too.
GateSleepsZeroToo(last_remaining, last_reset, now) ==
  IF ProactiveGate(last_remaining, last_reset)
  THEN <<[kind |-> "proactive", secs |-> ProactiveWait(last_reset, now),
          strategy |-> "gate", now |-> now, attempt_index |-> 0,
          retry_after |-> NoneStr, remaining |-> NoneStr, reset |-> NoneStr]>>
  ELSE <<>>

\* The sleeps the loop top makes before a page's first request: one call of
\* the sleep primitive when the gate is open and wait_secs > 0, else none.
GateSleeps(last_remaining, last_reset, now) ==
  IF ProactiveGate(last_remaining, last_reset)
     /\ ProactiveWait(last_reset, now) > 0
  THEN <<[kind |-> "proactive", secs |-> ProactiveWait(last_reset, now),
          strategy |-> "gate", now |-> now, attempt_index |-> 0,
          retry_after |-> NoneStr, remaining |-> NoneStr, reset |-> NoneStr]>>
  ELSE <<>>

\* Mutant: one retry too many.
ShouldRetryOnceMore(status_code, retries_used) ==
  status_code = 429 /\ retries_used <= MAX_RETRIES_PER_REQUEST

\* Mutant: the retry budget is two larger.
ShouldRetryTwiceMore(status_code, retries_used) ==
  status_code = 429 /\ retries_used < MAX_RETRIES_PER_REQUEST + 2

\* Mutant: server errors are retried like a 429.
ShouldRetryServerError(status_code, retries_used) ==
  status_code \in {429, 500} /\ retries_used < MAX_RETRIES_PER_REQUEST

\* The while-condition of the retry loop (alpaca.py:283)
ShouldRetry(status_code, retries_used) ==
  status_code = 429 /\ retries_used < MAX_RETRIES_PER_REQUEST

\* Mutant: the retry budget is shared by all pages of a call.
RetriesCarriedOver(previous) == previous

\* retries_used = 0 after a page's first request (alpaca.py:281)
RetriesAfterFirstGet(previous) == 0

\* Mutant: the page token is never attached.
CurrentParamsNoToken(params, page_token) ==
  [base |-> params, page_token |-> NoneStr]

\* current_params: the base query plus the page token, when there is one
CurrentParams(params, page_token) ==
  [base |-> params, page_token |-> page_token]

\* The exception raised for a final non-200 response (alpaca.py:308-318)
StatusError(status_code) ==
  IF status_code = 429
  THEN [kind |-> "ProviderError", status_code |-> 429, msg |-> "retries exhausted"]
  ELSE [kind |-> "ProviderError", status_code |-> status_code, msg |-> "request failed"]

\* The exception raised for a 200 whose body is not JSON (alpaca.py:321-327)
JsonError(status_code) ==
  [kind |-> "ProviderError", status_code |-> status_code, msg |-> "parse failure"]

\* Mutant: a page's list replaces the symbol's list instead of extending it.
MergePageOverwrite(merged, page_bars) ==
  [s \in (DOMAIN merged) \cup (DOMAIN page_bars) |->
     IF s \in DOMAIN page_bars THEN page_bars[s] ELSE merged[s]]

\* merged_bars after one page: each symbol's list is created on first
\* sighting and extended by the page's list (alpaca.py:330-334)
MergePage(merged, page_bars) ==
  [s \in (DOMAIN merged) \cup (DOMAIN page_bars) |->
     (IF s \in DOMAIN merged THEN merged[s] ELSE <<>>)
     \o (IF s \in DOMAIN page_bars THEN page_bars[s] ELSE <<>>)]

\* data.get("bars", {})
PageBars(body) == IF body.bars.k = "obj" THEN body.bars.v ELSE <<>>

\* Mutant: every page that has a currency overwrites the captured one.
MergeCurrencyLastWins(currency, body) ==
  IF JsonHas(body.currency) /\ JsonIndex(body.currency).has
  THEN JsonIndex(body.currency)
  ELSE currency

\* currency after one page (alpaca.py:337-338)
MergeCurrency(currency, body) ==
  IF ~currency.has /\ JsonHas(body.currency)
  THEN JsonIndex(body.currency)
  ELSE currency

\* Mutant: only None ends the loop, an empty string does not.
HasNextPageUnlessNone(next_token) == next_token.has

\* Mutant: the loop ends after the first page, whatever its token.
HasNextPageNever(next_token) == FALSE

\* Mutant: only an empty string ends the loop, None does not.
HasNextPageUnlessEmpty(next_token) == next_token # SomeStr("")

\* The loop goes on: not (not next_token or next_token == "")
HasNextPage(next_token) == next_token.has /\ next_token.v # ""

(***************************************************************************)
(* The server: the responses it may give                                   *)
(***************************************************************************)
NoBars == [k |-> "absent", v |-> <<>>]
Bars(f) == [k |-> "obj", v |-> f]

AAPL == "AAPL"
SPY == "SPY"

\* Page payloads (valid JSON objects).  Bars are numbered so that every bar
\* of every payload is distinguishable.
Payloads ==
  { [bars |-> Bars([s \in {AAPL} |-> <<11, 12>>]),
     currency |-> JAbsent, next_page_token |-> JStr("t1")],
    [bars |-> Bars([s \in {AAPL, SPY} |-> IF s = AAPL THEN <<22>> ELSE <<21>>]),
     currency |-> JStr("USD"), next_page_token |-> JStr("t2")],
    [bars |-> Bars([s \in {AAPL, SPY} |-> IF s = AAPL THEN <<31>> ELSE <<32, 33>>]),
     currency |-> JStr("EUR"), next_page_token |-> JNull],
    [bars |-> Bars([s \in {SPY} |-> <<41>>]),
     currency |-> JStr("USD"), next_page_token |-> JStr("")],
    [bars |-> NoBars,
     currency |-> JNull, next_page_token |-> JAbsent] }

\* A body that is not valid JSON, and the text of an error response
NotJson == [bars |-> NoBars, currency |-> JAbsent, next_page_token |-> JAbsent,
            json |-> FALSE]
JsonBody(p) == [bars |-> p.bars, currency |-> p.currency,
                next_page_token |-> p.next_page_token, json |-> TRUE]

\* Header values the server sends.  "x" parses neither as int nor as float.
RetryAfterValues == {NoneStr, SomeStr("x"), SomeStr("0"), SomeStr("1"), SomeStr("7")}
RateHeader(rem, res) == [remaining |-> rem, reset |-> res]
RateHeaderValues ==
  { RateHeader(NoneStr, NoneStr),
    RateHeader(SomeStr("0"), SomeStr("1001")),
    RateHeader(SomeStr(" 1 "), SomeStr("1020")),
    RateHeader(SomeStr("2"), SomeStr("1001")),
    RateHeader(SomeStr("0"), SomeStr("x")),
    RateHeader(SomeStr("x"), SomeStr("1001")) }
ThrottledRateHeaderValues ==
  { RateHeader(NoneStr, NoneStr),
    RateHeader(SomeStr("0"), SomeStr("1001")),
    RateHeader(SomeStr(" 1 "), SomeStr("1020")),
    RateHeader(SomeStr("0"), SomeStr("x")) }
ErrorRateHeaderValues ==
  { RateHeader(NoneStr, NoneStr),
    RateHeader(SomeStr("0"), SomeStr("1001")) }
ErrorStatuses == {204, 404, 500}

Response(status, retry_after, rate, body) ==
  [status |-> status, retry_after |-> retry_after, remaining |-> rate.remaining,
   reset |-> rate.reset, body |-> body]

Responses ==
  {Response(200, NoneStr, h, JsonBody(p)) : h \in RateHeaderValues, p \in Payloads}
  \cup {Response(200, NoneStr, h, NotJson) : h \in ErrorRateHeaderValues}
  \cup {Response(429, ra, h, NotJson) :
          ra \in RetryAfterValues, h \in ThrottledRateHeaderValues}
  \cup {Response(st, NoneStr, h, NotJson) :
          st \in ErrorStatuses, h \in ErrorRateHeaderValues}

(***************************************************************************)
(* The calls of fetch_stock_bars this model makes                          *)
(***************************************************************************)
StrDate(y, m, d) == [kind |-> "str", v |-> <<y, m, d>>]
PyDate(y, m, d) == [kind |-> "date", v |-> <<y, m, d>>]
PyDateTime(y, m, d, h) == [kind |-> "datetime", v |-> <<y, m, d, h>>]
NotADate == [kind |-> "int", v |-> <<0>>]

GoodSymbols == << <<" ", "a", "b">>, <<>>, <<"S", "b", " ">>, <<"\t", " ">> >>
OneSymbol == << <<"s">> >>
BlankSymbols == << <<" ", " ">>, <<>> >>

FetchArgs(symbols, limit, start, end, feed, asof) ==
  [symbols |-> symbols, limit |-> limit, start |-> start, end |-> end,
   feed |-> feed, asof |-> asof]

\* The calls made against the full server: one that passes validation and
\* one for each way of failing it.
FetchInputs ==
  { FetchArgs(GoodSymbols, 10000, StrDate(2024, 1, 1), PyDate(2024, 1, 3),
              SomeStr("iex"), NoneStr),
    FetchArgs(OneSymbol, 0, StrDate(2024, 1, 1), StrDate(2024, 1, 3), NoneStr, NoneStr),
    FetchArgs(GoodSymbols, 10001, StrDate(2024, 1, 1), StrDate(2024, 1, 3),
              NoneStr, NoneStr),
    FetchArgs(<<>>, 10000, StrDate(2024, 1, 1), StrDate(2024, 1, 3), NoneStr, NoneStr),
    FetchArgs(BlankSymbols, 1, StrDate(2024, 1, 1), StrDate(2024, 1, 3),
              NoneStr, NoneStr),
    FetchArgs(OneSymbol, 10000, NotADate, StrDate(2024, 1, 3), NoneStr, NoneStr) }

\* The calls made against a server that serves a single page: every
\* combination of limit, symbol list and start date below.
LimitValues == {-1, 0, 1, 2, 9999, 10000, 10001}
SymbolLists == {<<>>, BlankSymbols, OneSymbol, GoodSymbols}
StartValues == {StrDate(2024, 1, 1), PyDateTime(2024, 1, 1, 9), NotADate}
CallInputs ==
  { FetchArgs(sy, li, st, PyDate(2024, 1, 3), NoneStr, SomeStr("2024-01-01")) :
      sy \in SymbolLists, li \in LimitValues, st \in StartValues }

\* The base query parameters (alpaca.py:225-239)
BuildParams(in) ==
  [symbols |-> StrJoin(<<",">>, NormalizeSymbols(in.symbols)),
   timeframe |-> "1Day",
   start |-> SerializeDate(in.start),
   end |-> SerializeDate(in.end),
   limit |-> in.limit,
   adjustment |-> "raw",
   sort |-> "asc",
   feed |-> in.feed,
   asof |-> in.asof]

NoParams ==
  [symbols |-> <<>>, timeframe |-> "", start |-> <<>>, end |-> <<>>, limit |-> 0,
   adjustment |-> "", sort |-> "", feed |-> NoneStr, asof |-> NoneStr]

\* _build_auth_headers, for the client AlpacaClient("key", "secret")
BuildAuthHeaders == [key_id |-> "key", secret_key |-> "secret"]
NoHeaders == [key_id |-> "", secret_key |-> ""]

NoRequest == [kind |-> "none", params |-> CurrentParams(NoParams, NoneStr),
              headers |-> NoHeaders]

\* Mutant: a retry is sent without the authentication headers.
HttpGetRetryBare(kind, current_params, headers) ==
  [kind |-> kind, params |-> current_params,
   headers |-> IF kind = "retry" THEN NoHeaders ELSE headers]

\* http_client.get(url, params=current_params, headers=headers): the request
\* as the transport sees it; kind tells a page's first request from a retry.
HttpGet(kind, current_params, headers) ==
  [kind |-> kind, params |-> current_params, headers |-> headers]
NoBody == [bars |-> NoBars, currency |-> JAbsent, next_page_token |-> JAbsent]
NoOutcome == [kind |-> "none", status_code |-> 0, msg |-> "",
              bars |-> <<>>, currency |-> NoneStr]
RaiseValueError(what) == [NoOutcome EXCEPT !.kind = "ValueError", !.msg = what]
Raise(e) == [NoOutcome EXCEPT !.kind = e.kind, !.status_code = e.status_code,
                              !.msg = e.msg]
\* BarsResponse(bars=merged_bars, currency=currency)
BarsResponse(bars, cur) == [NoOutcome EXCEPT !.kind = "BarsResponse", !.bars = bars,
                                             !.currency = cur]

(***************************************************************************)
(* The validator (validate.py).  A table is a sequence of rows; row i of   *)
(* the sequence has the index label i - 1, as in the tables the normalizer *)
(* and the resampler produce (both end with reset_index(drop=True)).       *)
(* Timestamps are seconds since 2024-01-01T00:00:00Z (a Monday), dates are *)
(* days since 2024-01-01, prices are whole numbers.                        *)
(***************************************************************************)
\* The report truncates its OHLC and volume samples to this many.
SAMPLE_LIMIT == 20

\* America/New_York in January: UTC-5
NY_UTC_OFFSET_HOURS == 5

\* Mutant: the date is taken in UTC.
NyDateUtc(ts) == ts \div 86400

\* ts.tz_convert(NY_TZ).date
NyDate(ts) == (ts - NY_UTC_OFFSET_HOURS * 3600) \div 86400

Row(symbol, ts, o, h, l, c, v) ==
  [symbol |-> symbol, ts |-> ts, open |-> o, high |-> h, low |-> l, close |-> c,
   volume |-> v]

Labels(df) == 0..(Len(df) - 1)
RowAt(df, label) == df[label + 1]

\* df["symbol"].unique(): the symbols in order of first appearance
RECURSIVE UniqueSymbols(_)
UniqueSymbols(df) ==
  IF df = <<>> THEN <<>>
  ELSE LET front == UniqueSymbols(SubSeq(df, 1, Len(df) - 1))
           sym == df[Len(df)].symbol
       IN IF \E i \in 1..Len(front) : front[i] = sym THEN front ELSE Append(front, sym)

\* The labels of df[df["symbol"] == symbol]
SymbolLabels(df, symbol) == {i \in Labels(df) : RowAt(df, i).symbol = symbol}

\* The orders sort_values("ts") may give a symbol's rows: ascending by ts; the
\* default sort kind is not stable, so rows of equal ts come in any order.
SortedOrders(df, symbol) ==
  LET labs == SymbolLabels(df, symbol)
      n == Cardinality(labs)
  IN {ord \in [1..n -> labs] :
        /\ \A i, j \in 1..n : i # j => ord[i] # ord[j]
        /\ \A i \in 1..(n - 1) : RowAt(df, ord[i]).ts <= RowAt(df, ord[i + 1]).ts}

\* One order for every symbol of the table
TieOrders(df) ==
  LET syms == {df[i].symbol : i \in 1..Len(df)}
  IN {f \in [syms -> UNION {SortedOrders(df, sy) : sy \in syms}] :
        \A sy \in syms : f[sy] \in SortedOrders(df, sy)}

\* The order of symbol strings ("AAPL" < "SPY"), as a rank
SymbolRank(symbol) == IF symbol = "AAPL" THEN 1 ELSE 2

\* (symbol, ts) keys in the order sort_values and groupby put them
KeyLeq(x, y) ==
  \/ SymbolRank(x[1]) < SymbolRank(y[1])
  \/ x[1] = y[1] /\ x[2] <= y[2]

RECURSIVE SortKeys(_)
SortKeys(keys) ==
  IF keys = {} THEN <<>>
  ELSE LET m == CHOOSE x \in keys : \A y \in keys : KeyLeq(x, y)
       IN <<m>> \o SortKeys(keys \ {m})

\* Mutant: duplicated(keep="first") leaves the first row of a group unmarked.
DuplicatedLabelsKeepFirst(df) ==
  {i \in Labels(df) : \E j \in Labels(df) :
     /\ j < i
     /\ RowAt(df, j).symbol = RowAt(df, i).symbol
     /\ RowAt(df, j).ts = RowAt(df, i).ts}

\* Duplicates (validate.py:43-49): the rows
\* df.duplicated(subset=["symbol", "ts"], keep=False) marks ...
DuplicatedLabels(df) ==
  {i \in Labels(df) : \E j \in Labels(df) :
     /\ j # i
     /\ RowAt(df, j).symbol = RowAt(df, i).symbol
     /\ RowAt(df, j).ts = RowAt(df, i).ts}

\* ... and one entry per group of groupby(["symbol", "ts"]) over them, in
\* key order, with the group's length.
DuplicateEntries(df) ==
  LET marked == DuplicatedLabels(df)
      keys == SortKeys({<<RowAt(df, i).symbol, RowAt(df, i).ts>> : i \in marked})
  IN [k \in 1..Len(keys) |->
        [symbol |-> keys[k][1], ts |-> keys[k][2],
         count |-> Cardinality({j \in marked :
                      /\ RowAt(df, j).symbol = keys[k][1]
                      /\ RowAt(df, j).ts = keys[k][2]})]]

\* Mutant: the differences are taken in table order, without the sort.
NonMonotonicOfTableOrder(df, symbol, ord) ==
  LET labs == SymbolLabels(df, symbol)
      by_label == CHOOSE q \in [1..Len(ord) -> labs] :
                    \A i, j \in 1..Len(ord) : i < j => q[i] < q[j]
      viol == {k \in 2..Len(ord) :
                 RowAt(df, by_label[k]).ts - RowAt(df, by_label[k - 1]).ts <= 0}
  IN IF Len(ord) > 1 /\ viol # {}
     THEN LET k == CHOOSE x \in viol : \A y \in viol : x <= y
          IN IF by_label[k] > 0
             THEN <<[symbol |-> symbol,
                     example_ts_prev |-> RowAt(df, by_label[k - 1]).ts,
                     example_ts_next |-> RowAt(df, by_label[k]).ts]>>
             ELSE <<>>
     ELSE <<>>

\* Monotonic (validate.py:53-70), for one symbol whose rows sort into `ord`:
\* the first row whose ts does not exceed its predecessor's gives the
\* example, provided its label is > 0.
NonMonotonicOf(df, symbol, ord) ==
  LET viol == {k \in 2..Len(ord) : RowAt(df, ord[k]).ts - RowAt(df, ord[k - 1]).ts <= 0}
  IN IF Len(ord) > 1 /\ viol # {}
     THEN LET k == CHOOSE x \in viol : \A y \in viol : x <= y
          IN IF ord[k] > 0
             THEN <<[symbol |-> symbol,
                     example_ts_prev |-> RowAt(df, ord[k - 1]).ts,
                     example_ts_next |-> RowAt(df, ord[k]).ts]>>
             ELSE <<>>
     ELSE <<>>

RECURSIVE NonMonotonicEntries(_, _, _)
NonMonotonicEntries(df, syms, tie) ==
  IF syms = <<>> THEN <<>>
  ELSE NonMonotonicOf(df, Head(syms), tie[Head(syms)])
       \o NonMonotonicEntries(df, Tail(syms), tie)

\* Mutant: high < low is checked first.
OhlcIssueHighLowFirst(row) ==
  IF row.high < row.low THEN "high < low"
  ELSE IF row.high < Max(row.open, row.close) THEN "high < max(open, close)"
  ELSE IF row.low > Min(row.open, row.close) THEN "low > min(open, close)"
  ELSE "none"

\* Mutant: the low check is made before the high check.
OhlcIssueLowFirst(row) ==
  IF row.low > Min(row.open, row.close) THEN "low > min(open, close)"
  ELSE IF row.high < Max(row.open, row.close) THEN "high < max(open, close)"
  ELSE IF row.high < row.low THEN "high < low"
  ELSE "none"

\* OHLC (validate.py:80-115): the first check that fires names the issue.
OhlcIssue(row) ==
  IF row.high < Max(row.open, row.close) THEN "high < max(open, close)"
  ELSE IF row.low > Min(row.open, row.close) THEN "low > min(open, close)"
  ELSE IF row.high < row.low THEN "high < low"
  ELSE "none"

RECURSIVE OhlcViolations(_)
OhlcViolations(df) ==
  IF df = <<>> THEN <<>>
  ELSE LET row == df[Len(df)]
           front == OhlcViolations(SubSeq(df, 1, Len(df) - 1))
       IN IF OhlcIssue(row) # "none"
          THEN Append(front, [symbol |-> row.symbol, ts |-> row.ts, open |-> row.open,
                              high |-> row.high, low |-> row.low, close |-> row.close,
                              issue |-> OhlcIssue(row)])
          ELSE front

\* Volume (validate.py:120-130)
RECURSIVE VolumeViolations(_)
VolumeViolations(df) ==
  IF df = <<>> THEN <<>>
  ELSE LET row == df[Len(df)]
           front == VolumeViolations(SubSeq(df, 1, Len(df) - 1))
       IN IF row.volume < 0
          THEN Append(front, [symbol |-> row.symbol, ts |-> row.ts, volume |-> row.volume])
          ELSE front

\* samples[:20]
FirstSamples(list) == SubSeq(list, 1, Min(Len(list), SAMPLE_LIMIT))

NoMissingDays == [per_symbol |-> <<>>, total |-> 0, error |-> NoneStr, set |-> FALSE]

EmptyReport ==
  [symbols_count |-> 0, bars_count |-> 0,
   duplicates |-> <<>>, non_monotonic |-> <<>>,
   ohlc_violations |-> [count |-> 0, samples |-> <<>>],
   volume_violations |-> [count |-> 0, samples |-> <<>>],
   missing_days |-> NoMissingDays]

\* Mutant: negative volumes do not count against ok.
OkOfIssuesIgnoringVolume(report) ==
  /\ Len(report.duplicates) = 0
  /\ Len(report.non_monotonic) = 0
  /\ report.ohlc_violations.count = 0

\* ok (validate.py:134-139)
OkOfIssues(report) ==
  /\ Len(report.duplicates) = 0
  /\ Len(report.non_monotonic) = 0
  /\ report.ohlc_violations.count = 0
  /\ report.volume_violations.count = 0

\* _validate_bars_issues: (report, ok)
ValidateBarsIssues(df, tie) ==
  IF df = <<>>
  THEN [report |-> EmptyReport, ok |-> TRUE]
  ELSE LET report ==
             [EmptyReport EXCEPT
                !.symbols_count = Cardinality({df[i].symbol : i \in 1..Len(df)}),
                !.bars_count = Len(df),
                !.duplicates = DuplicateEntries(df),
                !.non_monotonic = NonMonotonicEntries(df, UniqueSymbols(df), tie),
                !.ohlc_violations = [count |-> Len(OhlcViolations(df)),
                                     samples |-> FirstSamples(OhlcViolations(df))],
                !.volume_violations = [count |-> Len(VolumeViolations(df)),
                                       samples |-> FirstSamples(VolumeViolations(df))]]
       IN [report |-> report, ok |-> OkOfIssues(report)]

\* The calendar collaborator: the XNYS sessions of the modelled days (day 2
\* is a holiday), or a lookup that raises.
TradingDays == {0, 1, 3, 4}
SessionsInRange(start, end) == {d \in TradingDays : start <= d /\ d <= end}

\* The missing days of validate_daily_bars (validate.py:159-178): per symbol
\* the expected sessions without a bar on that New York date, symbols with
\* none left out.
MissingDaysPerSymbol(df, expected) ==
  LET syms == {df[i].symbol : i \in 1..Len(df)}
      present(sy) == {NyDate(RowAt(df, i).ts) : i \in SymbolLabels(df, sy)}
  IN [sy \in {x \in syms : expected \ present(x) # {}} |-> expected \ present(sy)]

RECURSIVE SumOfSizes(_, _)
SumOfSizes(f, keys) ==
  IF keys = {} THEN 0
  ELSE LET k == CHOOSE x \in keys : TRUE
       IN Cardinality(f[k]) + SumOfSizes(f, keys \ {k})

\* Mutant: a failed calendar lookup makes the validation fail.
ValidateDailyBarsFailureNotOk(df, start, end, calendar, tie) ==
  LET base == ValidateBarsIssues(df, tie)
  IN IF df = <<>>
     THEN [ok |-> TRUE,
           report |-> [base.report EXCEPT
                         !.missing_days = [NoMissingDays EXCEPT !.set = TRUE]]]
     ELSE IF calendar = "raises"
     THEN [ok |-> FALSE,
           report |-> [base.report EXCEPT
                         !.missing_days = [NoMissingDays EXCEPT
                                             !.error = SomeStr("calendar lookup failed"),
                                             !.set = TRUE]]]
     ELSE LET missing == MissingDaysPerSymbol(df, SessionsInRange(start, end))
          IN [ok |-> base.ok,
              report |-> [base.report EXCEPT
                            !.missing_days =
                               [per_symbol |-> missing,
                                total |-> SumOfSizes(missing, DOMAIN missing),
                                error |-> NoneStr,
                                set |-> TRUE]]]

\* validate_daily_bars: (ok, report)
ValidateDailyBars(df, start, end, calendar, tie) ==
  LET base == ValidateBarsIssues(df, tie)
  IN IF df = <<>>
     THEN [ok |-> TRUE,
           report |-> [base.report EXCEPT
                         !.missing_days = [NoMissingDays EXCEPT !.set = TRUE]]]
     ELSE IF calendar = "raises"
     THEN [ok |-> base.ok,
           report |-> [base.report EXCEPT
                         !.missing_days = [NoMissingDays EXCEPT
                                             !.error = SomeStr("calendar lookup failed"),
                                             !.set = TRUE]]]
     ELSE LET missing == MissingDaysPerSymbol(df, SessionsInRange(start, end))
          IN [ok |-> base.ok,
              report |-> [base.report EXCEPT
                            !.missing_days =
                               [per_symbol |-> missing,
                                total |-> SumOfSizes(missing, DOMAIN missing),
                                error |-> NoneStr,
                                set |-> TRUE]]]

\* validate_weekly_bars: (ok, report)
ValidateWeeklyBars(df, tie) ==
  LET base == ValidateBarsIssues(df, tie)
  IN [ok |-> base.ok,
      report |-> [base.report EXCEPT
                    !.missing_days = [NoMissingDays EXCEPT !.set = TRUE]]]

(***************************************************************************)
(* The tables the validator is given                                       *)
(***************************************************************************)
MaxRows == 2

TableSymbols == {"AAPL", "SPY"}
\* 2024-01-01T05:00Z, 2024-01-02T04:00Z (still 2024-01-01 in New York),
\* 2024-01-04T05:00Z
TableTimes == {18000, 100800, 277200}
\* (open, high, low, close): sound, high < max(open, close), low > min(open, close),
\* and a row that fails all three checks
TablePrices == {<<10, 12, 9, 11>>, <<10, 11, 9, 12>>, <<10, 13, 11, 12>>, <<10, 9, 11, 12>>}
TableVolumes == {-1, 1000}
\* Every price pattern with a sound volume, and sound prices with every volume
TableRows ==
  {Row(sy, ts, p[1], p[2], p[3], p[4], 1000) :
     sy \in TableSymbols, ts \in TableTimes, p \in TablePrices}
  \cup {Row(sy, ts, 10, 12, 9, 11, v) : sy \in TableSymbols, ts \in TableTimes,
                                        v \in TableVolumes}
Tables == UNION {[1..n -> TableRows] : n \in 0..MaxRows}

(***************************************************************************)
(* The normalizer (normalize.py).  The bars dict is a sequence of           *)
(* [symbol, bar_list] items in insertion order; a raw bar holds the JSON    *)
(* value of "t" and the optional numbers "o", "h", "l", "c", "v".  A        *)
(* DataFrame is its column names and its rows in index order.               *)
(***************************************************************************)
COLUMNS ==
  <<"symbol", "timeframe", "ts", "open", "high", "low", "close", "volume", "source",
    "currency", "adjustment">>

\* pd.DataFrame(columns=[...])
EmptyFrame == [columns |-> COLUMNS, rows |-> <<>>]

\* Mutant: the empty result is a frame without columns.
FrameOfRowsBare(rows) == [columns |-> IF rows = <<>> THEN <<>> ELSE COLUMNS, rows |-> rows]

\* pd.DataFrame(rows) of row dicts that all have the same keys, or the empty
\* frame with the schema
FrameOfRows(rows) == IF rows = <<>> THEN EmptyFrame ELSE [columns |-> COLUMNS, rows |-> rows]

\* pd.to_datetime(ts_str, utc=True) of the RFC-3339 strings the server sends:
\* seconds since 2024-01-01T00:00:00Z
ParseTimestamp(ts_str) ==
  CASE ts_str = "2024-01-01T00:00:00Z" -> 0
    [] ts_str = "2024-01-03T05:00:00Z" -> 190800
    [] ts_str = "2024-01-07T23:59:59Z" -> 604799
    [] ts_str = "2024-01-08T00:00:00Z" -> 604800
    [] ts_str = "2024-01-23T05:00:00Z" -> 1918800

RawBar(t, o, h, l, c, v) == [t |-> t, o |-> o, h |-> h, l |-> l, c |-> c, v |-> v]

\* bar.get(key, default)
BarGet(field, default) == IF field.has THEN field.v ELSE default

\* currency if currency is not None else "USD"
CurrencyValue(cur) == IF cur.has THEN cur.v ELSE "USD"

\* The row dict of one raw bar that has a timestamp (normalize.py:59-82)
BarRow(symbol, bar, timeframe, source, cur, adjustment) ==
  [symbol |-> symbol, timeframe |-> timeframe, ts |-> ParseTimestamp(JsonGet(bar.t).v),
   open |-> BarGet(bar.o, 0), high |-> BarGet(bar.h, 0), low |-> BarGet(bar.l, 0),
   close |-> BarGet(bar.c, 0), volume |-> BarGet(bar.v, 0),
   source |-> source, currency |-> CurrencyValue(cur), adjustment |-> adjustment]

\* Mutant: a bar without a timestamp is kept, at the epoch.
RECURSIVE BarListRowsKeepUntimed(_, _, _, _, _, _)
BarListRowsKeepUntimed(symbol, bar_list, timeframe, source, cur, adjustment) ==
  IF bar_list = <<>> THEN <<>>
  ELSE LET bar == Head(bar_list)
           rest == BarListRowsKeepUntimed(symbol, Tail(bar_list), timeframe, source, cur,
                                          adjustment)
       IN IF ~JsonGet(bar.t).has
          THEN <<[BarRow(symbol, [bar EXCEPT !.t = JStr("2024-01-01T00:00:00Z")], timeframe,
                         source, cur, adjustment) EXCEPT !.ts = 0]>> \o rest
          ELSE <<BarRow(symbol, bar, timeframe, source, cur, adjustment)>> \o rest

\* The inner loop (normalize.py:52-82): a bar whose "t" is None is skipped.
RECURSIVE BarListRows(_, _, _, _, _, _)
BarListRows(symbol, bar_list, timeframe, source, cur, adjustment) ==
  IF bar_list = <<>> THEN <<>>
  ELSE LET bar == Head(bar_list)
           rest == BarListRows(symbol, Tail(bar_list), timeframe, source, cur, adjustment)
       IN IF ~JsonGet(bar.t).has
          THEN rest
          ELSE <<BarRow(symbol, bar, timeframe, source, cur, adjustment)>> \o rest

\* The outer loop over bars.items() (normalize.py:51)
RECURSIVE DictRows(_, _, _, _, _)
DictRows(bars, timeframe, source, cur, adjustment) ==
  IF bars = <<>> THEN <<>>
  ELSE BarListRows(Head(bars).symbol, Head(bars).bar_list, timeframe, source, cur, adjustment)
       \o DictRows(Tail(bars), timeframe, source, cur, adjustment)

\* Rows compare by (symbol, ts).
RowLeq(a, b) == KeyLeq(<<a.symbol, a.ts>>, <<b.symbol, b.ts>>)

RECURSIVE InsertRow(_, _)
InsertRow(sorted, row) ==
  IF sorted = <<>> THEN <<row>>
  ELSE IF RowLeq(sorted[Len(sorted)], row) THEN Append(sorted, row)
  ELSE Append(InsertRow(SubSeq(sorted, 1, Len(sorted) - 1), row), sorted[Len(sorted)])

\* Mutant: the rows stay in the order they were built.
SortBySymbolTsSkipped(rows) == rows

\* sort_values(["symbol", "ts"], ascending=[True, True]).reset_index(drop=True):
\* a sort on several columns is stable.
RECURSIVE SortBySymbolTs(_)
SortBySymbolTs(rows) ==
  IF rows = <<>> THEN <<>>
  ELSE InsertRow(SortBySymbolTs(SubSeq(rows, 1, Len(rows) - 1)), rows[Len(rows)])

\* bars_dict_to_dataframe
BarsDictToDataframe(bars, timeframe, source, cur, adjustment) ==
  IF bars = <<>> THEN FrameOfRows(<<>>)
  ELSE LET rows == DictRows(bars, timeframe, source, cur, adjustment)
       IN IF rows = <<>> THEN FrameOfRows(<<>>)
          ELSE FrameOfRows(SortBySymbolTs(rows))

(***************************************************************************)
(* The resampler (resample.py)                                             *)
(***************************************************************************)
\* The length of a "W-MON" period, in seconds
WEEK_SECONDS == 604800

\* Mutant: closed="right" puts a bar at Monday 00:00 into the week before.
WeekStartClosedRight(ts) == ((ts - 1) \div WEEK_SECONDS) * WEEK_SECONDS

\* The label of the bin of resample("W-MON", label="left", closed="left")
\* that holds ts: the bin edges are the Mondays at 00:00 UTC (the epoch of
\* the timestamps is one), every bin holds its left edge and is named by it.
WeekStart(ts) == (ts \div WEEK_SECONDS) * WEEK_SECONDS

RECURSIVE SumVolume(_)
SumVolume(rows) == IF rows = <<>> THEN 0 ELSE Head(rows).volume + SumVolume(Tail(rows))

\* Mutant: close is aggregated with "first".
AggregateWeekCloseFirst(label, rows) ==
  IF rows = <<>>
  THEN [ts |-> label, nan |-> TRUE, open |-> 0, high |-> 0, low |-> 0, close |-> 0,
        volume |-> 0]
  ELSE [ts |-> label, nan |-> FALSE,
        open |-> rows[1].open,
        high |-> CHOOSE x \in {rows[i].high : i \in 1..Len(rows)} :
                   \A i \in 1..Len(rows) : rows[i].high <= x,
        low |-> CHOOSE x \in {rows[i].low : i \in 1..Len(rows)} :
                  \A i \in 1..Len(rows) : x <= rows[i].low,
        close |-> rows[1].close,
        volume |-> SumVolume(rows)]

\* .agg({"open": "first", "high": "max", "low": "min", "close": "last",
\* "volume": "sum"}) of one bin, whose rows come in index order; a bin
\* without rows has NaN prices (nan) and volume 0.
AggregateWeek(label, rows) ==
  IF rows = <<>>
  THEN [ts |-> label, nan |-> TRUE, open |-> 0, high |-> 0, low |-> 0, close |-> 0,
        volume |-> 0]
  ELSE [ts |-> label, nan |-> FALSE,
        open |-> rows[1].open,
        high |-> CHOOSE x \in {rows[i].high : i \in 1..Len(rows)} :
                   \A i \in 1..Len(rows) : rows[i].high <= x,
        low |-> CHOOSE x \in {rows[i].low : i \in 1..Len(rows)} :
                  \A i \in 1..Len(rows) : x <= rows[i].low,
        close |-> rows[Len(rows)].close,
        volume |-> SumVolume(rows)]

\* sym_df.resample(...).agg(...): one aggregate for every bin from the one
\* of the first row to the one of the last row of the sorted rows
Resample(sorted) ==
  LET first == WeekStart(sorted[1].ts)
      last == WeekStart(sorted[Len(sorted)].ts)
      InBin(label) == LET Inside(r) == WeekStart(r.ts) = label
                      IN SelectSeq(sorted, Inside)
  IN [b \in 1..((last - first) \div WEEK_SECONDS + 1) |->
        AggregateWeek(first + (b - 1) * WEEK_SECONDS,
                      InBin(first + (b - 1) * WEEK_SECONDS))]

\* resampled.dropna(subset=["open"])
DropNa(resampled) == LET HasOpen(a) == ~a.nan IN SelectSeq(resampled, HasOpen)

\* The weekly rows of one symbol (resample.py:37-63), whose rows sort_index
\* puts into the order `ord`
WeeklyPart(rows, symbol, ord) ==
  LET sorted == [k \in 1..Len(ord) |-> RowAt(rows, ord[k])]
      resampled == DropNa(Resample(sorted))
      first_row == sorted[1]
  IN [k \in 1..Len(resampled) |->
        [symbol |-> symbol, timeframe |-> "1w", ts |-> resampled[k].ts,
         open |-> resampled[k].open, high |-> resampled[k].high,
         low |-> resampled[k].low, close |-> resampled[k].close,
         volume |-> resampled[k].volume,
         source |-> first_row.source, currency |-> first_row.currency,
         adjustment |-> first_row.adjustment]]

\* pd.concat(weekly_parts) over df["symbol"].unique() (resample.py:36-84)
RECURSIVE WeeklyParts(_, _, _)
WeeklyParts(rows, syms, tie) ==
  IF syms = <<>> THEN <<>>
  ELSE WeeklyPart(rows, Head(syms), tie[Head(syms)]) \o WeeklyParts(rows, Tail(syms), tie)

\* to_weekly
ToWeekly(df_daily, tie) ==
  IF df_daily.rows = <<>> THEN EmptyFrame
  ELSE LET out == WeeklyParts(df_daily.rows, UniqueSymbols(df_daily.rows), tie)
       IN IF out = <<>> THEN EmptyFrame
          ELSE [columns |-> COLUMNS, rows |-> SortBySymbolTs(out)]

(***************************************************************************)
(* The bars the normalizer is given                                        *)
(***************************************************************************)
MaxBars == 2

RawTimes ==
  {JStr("2024-01-01T00:00:00Z"), JStr("2024-01-03T05:00:00Z"), JStr("2024-01-07T23:59:59Z"),
   JStr("2024-01-08T00:00:00Z"), JStr("2024-01-23T05:00:00Z")}

\* Bars with a timestamp and one of two sets of numbers, and bars whose
\* "t" is missing or null; the last one has no "v" either.
RawBars ==
  {RawBar(t, SomeInt(10), SomeInt(12), SomeInt(9), SomeInt(11), SomeInt(100)) : t \in RawTimes}
  \cup {RawBar(t, SomeInt(20), SomeInt(25), SomeInt(15), SomeInt(22), SomeInt(300)) :
          t \in RawTimes}
  \cup {RawBar(JAbsent, SomeInt(10), SomeInt(12), SomeInt(9), SomeInt(11), SomeInt(100)),
        RawBar(JNull, SomeInt(20), SomeInt(25), SomeInt(15), SomeInt(22), NoneInt)}

BarLists == UNION {[1..n -> RawBars] : n \in 0..MaxBars}

\* What the other symbol of a two-symbol dict holds
OtherBarLists ==
  {<<>>,
   <<RawBar(JAbsent, SomeInt(10), SomeInt(12), SomeInt(9), SomeInt(11), SomeInt(100))>>,
   <<RawBar(JStr("2024-01-08T00:00:00Z"), SomeInt(20), SomeInt(25), SomeInt(15), SomeInt(22),
            NoneInt),
     RawBar(JStr("2024-01-03T05:00:00Z"), SomeInt(10), SomeInt(12), SomeInt(9), SomeInt(11),
            SomeInt(100))>>}

DictItem(symbol, bar_list) == [symbol |-> symbol, bar_list |-> bar_list]

\* The bars dicts: empty, one symbol, or two symbols in either order of arrival
BarsDicts ==
  {<<>>}
  \cup {<<DictItem("AAPL", l)>> : l \in BarLists}
  \cup {<<DictItem("AAPL", l), DictItem("SPY", o)>> : l \in BarLists, o \in OtherBarLists}
  \cup {<<DictItem("SPY", l), DictItem("AAPL", o)>> : l \in BarLists, o \in OtherBarLists}

(***************************************************************************)
(* State of one call of fetch_stock_bars                                   *)
(***************************************************************************)
VARIABLES
  page_budget,    \* the server: how many pages it serves at most
  pc,             \* "call", "get" (at alpaca.py:280), "retry_get" (at :296),
                  \* "returned", "raised"
  input,          \* the arguments of the call
  params,         \* the base query
  page_token,     \* None or the token of the page to ask for
  merged_bars,    \* symbol -> list of bars
  currency,       \* None or the captured currency
  last_remaining, \* carried rate-limit state
  last_reset,
  retries_used,   \* of the page being requested
  outcome,        \* what the call returned or raised
  \* What the injected collaborators saw (the spies of the tests):
  last_request,       \* the latest HTTP request
  pending_sleeps,     \* the sleeps made since the latest HTTP request
  slept,              \* the sleep primitive was invoked at least once
  page_attempts,      \* HTTP requests made for the latest page
  page_retry_sleeps,  \* retry sleeps made for the latest page
  page_429s,          \* 429 responses received for the latest page
  prior_retried,      \* a page before the latest one needed a retry
  last_status,        \* status of the latest response, 0 before the first
  last_json,          \* the latest response's body parsed as JSON
  last_headers,       \* the latest response's raw X-RateLimit-Remaining/-Reset
  seen_rate_header,   \* some response carried an X-RateLimit-Remaining/-Reset header
  heard_rate,         \* the latest parsable remaining and reset among the headers
                      \* of all responses received, retried ones included
  seen_429,           \* some response was a 429
  pages               \* the pages that succeeded: <<[req_token, body]>>

fvars == <<page_budget, pc, input, params, page_token, merged_bars, currency, last_remaining,
           last_reset, retries_used, outcome, last_request, pending_sleeps, slept,
           page_attempts, page_retry_sleeps, page_429s, prior_retried, last_status,
           last_json, last_headers, seen_rate_header, heard_rate, seen_429, pages>>

\* State of one call of validate_daily_bars or validate_weekly_bars
VARIABLES
  v_pc,           \* "idle", "input", "done"
  v_df,           \* the table
  v_range,        \* <<start, end>>, days
  v_calendar,     \* "XNYS" (the lookup works) or "raises"
  v_granularity,  \* "daily", "weekly" once validated
  v_ok,           \* the ok that was returned
  v_report        \* the report that was returned

vvars == <<v_pc, v_df, v_range, v_calendar, v_granularity, v_ok, v_report>>

\* State of one run of the normalizer and the resampler (as in dataset.py)
VARIABLES
  d_pc,           \* "idle", "input", "normalized", "weekly"
  d_bars,         \* the bars dict
  d_currency,     \* None or the currency of the response
  df_daily,       \* the normalizer's table
  df_weekly       \* the resampler's table

dvars == <<d_pc, d_bars, d_currency, df_daily, df_weekly>>

vars == <<fvars, vvars, dvars>>

\* Neither normalizer nor resampler is running.
IdleDataset ==
  /\ d_pc = "idle"
  /\ d_bars = <<>>
  /\ d_currency = NoneStr
  /\ df_daily = EmptyFrame
  /\ df_weekly = EmptyFrame

\* No validation is going on.
IdleValidate ==
  /\ v_pc = "idle"
  /\ v_df = <<>>
  /\ v_range = <<0, 0>>
  /\ v_calendar = "XNYS"
  /\ v_granularity = "none"
  /\ v_ok = FALSE
  /\ v_report = EmptyReport

InitCallAt(at) ==
  /\ pc = at
  /\ params = NoParams
  /\ page_token = NoneStr
  /\ merged_bars = <<>>
  /\ currency = NoneStr
  /\ last_remaining = NoneInt
  /\ last_reset = NoneInt
  /\ retries_used = 0
  /\ outcome = NoOutcome
  /\ last_request = NoRequest
  /\ pending_sleeps = <<>>
  /\ slept = FALSE
  /\ page_attempts = 0
  /\ page_retry_sleeps = 0
  /\ page_429s = 0
  /\ prior_retried = FALSE
  /\ last_status = 0
  /\ last_json = FALSE
  /\ last_headers = [remaining |-> NoneStr, reset |-> NoneStr]
  /\ seen_rate_header = FALSE
  /\ heard_rate = [remaining |-> NoneInt, reset |-> NoneInt]
  /\ seen_429 = FALSE
  /\ pages = <<>>

\* The call up to its first HTTP request: validation, the base query, the
\* initial state, and the first loop top with its proactive gate
\* (alpaca.py:212-277).
Call ==
  /\ pc = "call"
  /\ \E now \in ClockReadings(ProactiveGate(NoneInt, NoneInt)) :
       IF LimitOutOfRange(input.limit)
       THEN /\ outcome' = RaiseValueError("limit")
            /\ pc' = "raised"
            /\ UNCHANGED <<params, pending_sleeps, slept>>
       ELSE IF NormalizeSymbols(input.symbols) = <<>>
       THEN /\ outcome' = RaiseValueError("symbols")
            /\ pc' = "raised"
            /\ UNCHANGED <<params, pending_sleeps, slept>>
       ELSE IF ~(SerializeDateOk(input.start) /\ SerializeDateOk(input.end))
       THEN /\ outcome' = RaiseValueError("date")
            /\ pc' = "raised"
            /\ UNCHANGED <<params, pending_sleeps, slept>>
       ELSE /\ params' = BuildParams(input)
            /\ pending_sleeps' = GateSleeps(NoneInt, NoneInt, now)
            /\ slept' = (GateSleeps(NoneInt, NoneInt, now) # <<>>)
            /\ pc' = "get"
            /\ UNCHANGED outcome
  /\ UNCHANGED vvars
  /\ UNCHANGED dvars
  /\ UNCHANGED <<page_budget, input, page_token, merged_bars, currency, last_remaining, last_reset,
                 retries_used, last_request, page_attempts, page_retry_sleeps,
                 page_429s, prior_retried, last_status, last_json, last_headers,
                 seen_rate_header, heard_rate, seen_429, pages>>

\* What the code does with a response, up to the next HTTP request or the
\* end of the call (alpaca.py:283-345 and, for a further page, :257-277).
\* `used` is retries_used when the response arrives, `sleeps` the retry
\* sleeps made for this page so far.
HandleResponse(r, used, sleeps) ==
  LET rate == ParseRateLimitHeaders(r)
      new_remaining == IF rate.remaining.has THEN rate.remaining ELSE last_remaining
      new_reset == IF rate.reset.has THEN rate.reset ELSE last_reset
      next_token == JsonGet(r.body.next_page_token)
      new_bars == MergePage(merged_bars, PageBars(r.body))
      new_currency == MergeCurrency(currency, r.body)
  IN
  /\ last_status' = r.status
  /\ last_json' = r.body.json
  /\ last_headers' = [remaining |-> r.remaining, reset |-> r.reset]
  /\ seen_rate_header' = (seen_rate_header \/ r.remaining.has \/ r.reset.has)
  /\ heard_rate' =
       [remaining |-> IF ParseRateHeader(r.remaining).has
                      THEN ParseRateHeader(r.remaining) ELSE heard_rate.remaining,
        reset |-> IF ParseRateHeader(r.reset).has
                  THEN ParseRateHeader(r.reset) ELSE heard_rate.reset]
  /\ seen_429' = (seen_429 \/ r.status = 429)
  /\ IF ShouldRetry(r.status, used)
     THEN \* sleep, then retry the same request
          /\ \E now \in ClockReadings(RetryDelayReadsClock(r)) :
               LET delay == ComputeSleepSecondsFor429(r, used, now)
               IN pending_sleeps' = <<[kind |-> "retry", secs |-> delay.secs,
                                       strategy |-> delay.strategy, now |-> now,
                                       attempt_index |-> used,
                                       retry_after |-> r.retry_after,
                                       remaining |-> r.remaining,
                                       reset |-> r.reset]>>
          /\ slept' = TRUE
          /\ retries_used' = used + 1
          /\ page_retry_sleeps' = sleeps + 1
          /\ pc' = "retry_get"
          /\ UNCHANGED <<last_remaining, last_reset, outcome, merged_bars, currency,
                         page_token, pages>>
     ELSE /\ retries_used' = used
          /\ last_remaining' = new_remaining
          /\ last_reset' = new_reset
          /\ page_retry_sleeps' = sleeps
          /\ IF r.status # 200
             THEN /\ outcome' = Raise(StatusError(r.status))
                  /\ pc' = "raised"
                  /\ pending_sleeps' = <<>>
                  /\ UNCHANGED <<merged_bars, currency, page_token, pages, slept>>
             ELSE IF ~r.body.json
             THEN /\ outcome' = Raise(JsonError(r.status))
                  /\ pc' = "raised"
                  /\ pending_sleeps' = <<>>
                  /\ UNCHANGED <<merged_bars, currency, page_token, pages, slept>>
             ELSE /\ merged_bars' = new_bars
                  /\ currency' = new_currency
                  /\ pages' = Append(pages, [req_token |-> last_request'.params.page_token,
                                             body |-> [bars |-> r.body.bars,
                                                       currency |-> r.body.currency,
                                                       next_page_token |->
                                                         r.body.next_page_token]])
                  /\ IF HasNextPage(next_token)
                     THEN /\ page_token' = next_token
                          /\ \E now \in ClockReadings(ProactiveGate(new_remaining,
                                                                    new_reset)) :
                               LET gate == GateSleeps(new_remaining, new_reset, now)
                               IN /\ pending_sleeps' = gate
                                  /\ slept' = (slept \/ gate # <<>>)
                          /\ pc' = "get"
                          /\ UNCHANGED outcome
                     ELSE /\ outcome' = BarsResponse(new_bars, new_currency)
                          /\ pc' = "returned"
                          /\ pending_sleeps' = <<>>
                          /\ UNCHANGED <<page_token, slept>>

\* The responses the server may give to the request for the next page: it
\* hands out a further token only while fewer than page_budget pages were served.
ServerResponses ==
  {r \in Responses :
     HasNextPage(JsonGet(r.body.next_page_token)) => Len(pages) + 1 < page_budget}

\* A page's first HTTP request and its response (alpaca.py:280-281).
Get ==
  /\ pc = "get"
  /\ \E r \in ServerResponses :
       /\ last_request' = HttpGet("first", CurrentParams(params, page_token),
                                  BuildAuthHeaders)
       /\ page_attempts' = 1
       /\ page_429s' = IF r.status = 429 THEN 1 ELSE 0
       /\ prior_retried' = (prior_retried \/ page_429s > 0)
       /\ HandleResponse(r, RetriesAfterFirstGet(retries_used), 0)
  /\ UNCHANGED <<page_budget, input, params>>
  /\ UNCHANGED vvars
  /\ UNCHANGED dvars

\* A retry of the same request and its response (alpaca.py:296-298).
RetryGet ==
  /\ pc = "retry_get"
  /\ \E r \in ServerResponses :
       /\ last_request' = HttpGet("retry", CurrentParams(params, page_token),
                                  BuildAuthHeaders)
       /\ page_attempts' = page_attempts + 1
       /\ page_429s' = page_429s + (IF r.status = 429 THEN 1 ELSE 0)
       /\ UNCHANGED prior_retried
       /\ HandleResponse(r, retries_used, page_retry_sleeps)
  /\ UNCHANGED <<page_budget, input, params>>
  /\ UNCHANGED vvars
  /\ UNCHANGED dvars

InitCall == InitCallAt("call")

\* One call against the full server.
Init ==
  /\ page_budget = MaxPages
  /\ input \in FetchInputs
  /\ InitCall
  /\ IdleValidate
  /\ IdleDataset

\* One call against a server that serves two pages at most.
InitFair ==
  /\ page_budget = 2
  /\ input \in FetchInputs
  /\ InitCall
  /\ IdleValidate
  /\ IdleDataset

\* One call, of many, against a server that serves a single page.
InitInputs ==
  /\ page_budget = 1
  /\ input \in CallInputs
  /\ InitCall
  /\ IdleValidate
  /\ IdleDataset

\* No fetch is going on.
IdleFetch ==
  /\ page_budget = 0
  /\ input = FetchArgs(<<>>, 0, NotADate, NotADate, NoneStr, NoneStr)
  /\ InitCallAt("idle")

\* One call of the validator on a table.
InitValidate ==
  /\ IdleFetch
  /\ v_pc = "input"
  /\ v_df \in Tables
  /\ v_range = <<0, 0>>
  /\ v_calendar = "XNYS"
  /\ v_granularity = "none"
  /\ v_ok = FALSE
  /\ v_report = EmptyReport
  /\ IdleDataset

\* The date ranges validation is asked about, and what the calendar lookup does
DateRanges == {<<0, 0>>, <<0, 4>>}
CalendarBehaviours == {"XNYS", "raises"}

\* validate_daily_bars(df, start=, end=)
ValidateDaily ==
  /\ v_pc = "input"
  /\ \E range \in DateRanges, calendar \in CalendarBehaviours, tie \in TieOrders(v_df) :
       LET res == ValidateDailyBars(v_df, range[1], range[2], calendar, tie)
       IN /\ v_range' = range
          /\ v_calendar' = calendar
          /\ v_ok' = res.ok
          /\ v_report' = res.report
  /\ v_granularity' = "daily"
  /\ v_pc' = "done"
  /\ UNCHANGED v_df
  /\ UNCHANGED fvars
  /\ UNCHANGED dvars

\* validate_weekly_bars(df, start=, end=)
ValidateWeekly ==
  /\ v_pc = "input"
  /\ \E range \in DateRanges, tie \in TieOrders(v_df) :
       LET res == ValidateWeeklyBars(v_df, tie)
       IN /\ v_range' = range
          /\ v_ok' = res.ok
          /\ v_report' = res.report
  /\ v_granularity' = "weekly"
  /\ v_pc' = "done"
  /\ UNCHANGED <<v_df, v_calendar>>
  /\ UNCHANGED fvars
  /\ UNCHANGED dvars

\* One run of the normalizer, and of the resampler on its table.
InitDataset ==
  /\ IdleFetch
  /\ IdleValidate
  /\ d_pc = "input"
  /\ d_bars \in BarsDicts
  /\ d_currency \in {NoneStr, SomeStr("EUR")}
  /\ df_daily = EmptyFrame
  /\ df_weekly = EmptyFrame

\* df_daily = bars_dict_to_dataframe(response.bars, timeframe="1d",
\* source="alpaca", currency=response.currency, adjustment=adjustment)
NormalizeBars ==
  /\ d_pc = "input"
  /\ df_daily' = BarsDictToDataframe(d_bars, "1d", "alpaca", d_currency, "raw")
  /\ d_pc' = "normalized"
  /\ UNCHANGED <<d_bars, d_currency, df_weekly>>
  /\ UNCHANGED fvars
  /\ UNCHANGED vvars

\* df_weekly = to_weekly(df_daily)
ResampleWeekly ==
  /\ d_pc = "normalized"
  /\ \E tie \in TieOrders(df_daily.rows) : df_weekly' = ToWeekly(df_daily, tie)
  /\ d_pc' = "weekly"
  /\ UNCHANGED <<d_bars, d_currency, df_daily>>
  /\ UNCHANGED fvars
  /\ UNCHANGED vvars

Next ==
  \/ Call
  \/ Get
  \/ RetryGet

Spec == Init /\ [][Next]_vars

SpecInputs == InitInputs /\ [][Next]_vars

\* The call runs on one thread and each HTTP request and each sleep returns:
\* a step that can be taken is eventually taken.
SpecFair == InitFair /\ [][Next]_vars /\ WF_vars(Next)

NextValidate ==
  \/ ValidateDaily
  \/ ValidateWeekly

SpecValidate == InitValidate /\ [][NextValidate]_vars

NextDataset ==
  \/ NormalizeBars
  \/ ResampleWeekly

SpecDataset == InitDataset /\ [][NextDataset]_vars

(***************************************************************************)
(* Properties of the fetch client                                          *)
(***************************************************************************)
\* What the pages that succeeded hold, read from the record of the pages.
PageBarsAt(i) ==
  IF pages[i].body.bars.k = "obj" THEN pages[i].body.bars.v ELSE <<>>
PageTokenAt(i) == pages[i].body.next_page_token
SymbolsSeen == UNION {DOMAIN PageBarsAt(i) : i \in 1..Len(pages)}

RECURSIVE BarsUpTo(_, _)
BarsUpTo(sym, n) ==
  IF n = 0 THEN <<>>
  ELSE BarsUpTo(sym, n - 1)
       \o (IF sym \in DOMAIN PageBarsAt(n) THEN PageBarsAt(n)[sym] ELSE <<>>)

RECURSIVE CountUpTo(_, _)
CountUpTo(sym, n) ==
  IF n = 0 THEN 0
  ELSE CountUpTo(sym, n - 1)
       + (IF sym \in DOMAIN PageBarsAt(n) THEN Len(PageBarsAt(n)[sym]) ELSE 0)

IsConcatenationOfPages(bars) ==
  /\ DOMAIN bars = SymbolsSeen
  /\ \A sym \in SymbolsSeen :
       /\ bars[sym] = BarsUpTo(sym, Len(pages))
       /\ Len(bars[sym]) = CountUpTo(sym, Len(pages))

\* The latest page succeeded and the call has moved past it.
PageSucceeded == pc \in {"get", "returned"} /\ Len(pages) >= 1

\* A token that asks for a further page: a non-empty string.
IsContinuation(j) == j.k = "str" /\ j.v # ""

\* C1: the merged bars map every symbol seen on any page to the
\* concatenation, in page order, of its bar lists from all pages, so its bar
\* count is the sum of its counts over the pages; this holds after every page
\* and of the BarsResponse returned.
C1_MergeIsConcatenation ==
  /\ IsConcatenationOfPages(merged_bars)
  /\ pc = "returned" =>
       /\ outcome.kind = "BarsResponse"
       /\ IsConcatenationOfPages(outcome.bars)

\* C1 witness: a two-page fetch returned; SPY was first seen on the second
\* page, and AAPL holds the bars of both pages in page order.
C1_Witness ==
  /\ pc = "returned" /\ Len(pages) = 2
  /\ SPY \notin DOMAIN PageBarsAt(1)
  /\ SPY \in DOMAIN outcome.bars /\ outcome.bars[SPY] = <<32, 33>>
  /\ outcome.bars[AAPL] = <<11, 12, 31>>

\* C2: a page request whose 6 attempts all drew a 429 ends the call with
\* ProviderError(status_code=429) and a retries-exhausted message, after
\* exactly 5 retry sleeps; no page ever gets a 7th attempt.
C2_RetriesExhausted ==
  /\ page_attempts <= 6
  /\ page_429s = 6 =>
       /\ pc = "raised"
       /\ outcome.kind = "ProviderError"
       /\ outcome.status_code = 429
       /\ outcome.msg = "retries exhausted"
       /\ page_attempts = 6
       /\ page_retry_sleeps = 5

\* C2 witness: the first page drew six 429s and the call raised.
C2_Witness ==
  /\ pc = "raised" /\ Len(pages) = 0
  /\ page_429s = 6 /\ page_retry_sleeps = 5
  /\ outcome.status_code = 429

\* C3: a page that drew k 429s (k <= 5) and then a 200 succeeds after
\* exactly k+1 requests and k retry sleeps, whatever earlier pages used:
\* every 429 within the budget is retried, exactly one retry sleep precedes
\* each retry, the page's bars are merged, and a retry sleep caused by
\* Retry-After "1" lasts 1.0 second.
C3_RetryThenSucceed ==
  /\ (last_status = 429 /\ page_429s <= 5) => pc = "retry_get"
  /\ pc = "retry_get" =>
       /\ Len(pending_sleeps) = 1
       /\ pending_sleeps[1].kind = "retry"
       /\ page_retry_sleeps = page_429s
       /\ page_attempts = page_429s
       /\ pending_sleeps[1].retry_after = SomeStr("1") => pending_sleeps[1].secs = 4
  /\ (pc # "call" /\ last_status = 200 /\ last_json) => PageSucceeded
  /\ PageSucceeded =>
       /\ page_429s <= 5
       /\ page_attempts = page_429s + 1
       /\ page_retry_sleeps = page_429s
       /\ \A sym \in DOMAIN PageBarsAt(Len(pages)) :
            merged_bars[sym] = BarsUpTo(sym, Len(pages) - 1) \o PageBarsAt(Len(pages))[sym]

\* C3 witness: the second page succeeded on its 5th retry although an
\* earlier page had needed retries too.
C3_Witness ==
  /\ pc = "returned" /\ Len(pages) = 2
  /\ prior_retried
  /\ page_429s = 5 /\ page_attempts = 6 /\ page_retry_sleeps = 5

\* C4: a final response with a status other than 200 raises ProviderError
\* with exactly that status; only a 429 is ever retried, so an error status
\* gets one request and no retry sleep; a 200 whose body is not JSON raises
\* ProviderError with status 200.
C4_TerminalStatus ==
  /\ pc = "retry_get" => last_status = 429
  /\ (last_status \notin {0, 200} /\ pc # "retry_get") =>
       /\ pc = "raised"
       /\ outcome.kind = "ProviderError"
       /\ outcome.status_code = last_status
       /\ pending_sleeps = <<>>
  /\ last_status \in ErrorStatuses =>
       /\ page_attempts = page_429s + 1
       /\ page_retry_sleeps = page_429s
  /\ (last_status = 200 /\ ~last_json) =>
       /\ pc = "raised"
       /\ outcome.kind = "ProviderError"
       /\ outcome.status_code = 200
       /\ outcome.msg = "parse failure"

\* C4 witness: a 500 that followed two retried 429s was raised as it is.
C4_Witness ==
  /\ pc = "raised" /\ last_status = 500
  /\ page_429s = 2 /\ page_attempts = 3
  /\ outcome.status_code = 500

\* C5: a page whose next_page_token is "" ends pagination like one whose
\* token is absent or null: the call returns the bars merged so far, and no
\* request ever carries an empty page_token.
C5_EmptyTokenEndsPagination ==
  /\ last_request.params.page_token # SomeStr("")
  /\ page_token # SomeStr("")
  /\ (Len(pages) >= 1 /\ PageTokenAt(Len(pages)) \in {JAbsent, JNull, JStr("")}) =>
       /\ pc = "returned"
       /\ outcome = BarsResponse(merged_bars, currency)
       /\ IsConcatenationOfPages(outcome.bars)

\* C5 witness: the second page came with the token "" and the call returned.
C5_Witness ==
  /\ pc = "returned" /\ Len(pages) = 2
  /\ PageTokenAt(2) = JStr("")
  /\ outcome.bars[SPY] = <<41>>

\* The page the latest request asked for: the latest page that succeeded,
\* or the one after it while that request is retried or has failed.
RequestedPage == IF pc \in {"get", "returned"} THEN Len(pages) ELSE Len(pages) + 1

\* The token the request for page i has to carry.
TokenForPage(i) == IF i = 1 THEN NoneStr ELSE SomeStr(PageTokenAt(i - 1).v)

\* The base query of the call, read from its arguments.
QueryOfCall ==
  [symbols |-> params.symbols, timeframe |-> "1Day", start |-> params.start,
   end |-> params.end, limit |-> input.limit, adjustment |-> "raw", sort |-> "asc",
   feed |-> input.feed, asof |-> input.asof]

\* C6: the first request carries no page_token, the request for page i+1
\* carries exactly the token page i returned, with the base query unchanged;
\* a further page is requested if and only if the page before supplied a
\* non-empty token.
C6_PageTokens ==
  /\ last_request.kind # "none" =>
       /\ last_request.params.page_token = TokenForPage(RequestedPage)
       /\ last_request.params.base = QueryOfCall
  /\ \A i \in 1..Len(pages) : pages[i].req_token = TokenForPage(i)
  /\ \A i \in 1..(Len(pages) - 1) : IsContinuation(PageTokenAt(i))
  /\ PageSucceeded => (pc = "get" <=> IsContinuation(PageTokenAt(Len(pages))))
  /\ (pc \in {"retry_get", "raised"} /\ Len(pages) >= 1) =>
       IsContinuation(PageTokenAt(Len(pages)))

\* C6 witness: the second page was asked for with the token "t2" that the
\* first page returned.
C6_Witness ==
  /\ pc = "returned" /\ Len(pages) = 2
  /\ PageTokenAt(1) = JStr("t2")
  /\ last_request.params.page_token = SomeStr("t2")

\* (reset - now + 0.25 s) clamped to [0 s, 10 s], in ticks
ClampedProactiveDelay(reset, now) ==
  LET raw == reset * 4 - now + 1
  IN IF raw < 0 THEN 0 ELSE IF raw > 40 THEN 40 ELSE raw

\* C7: when the state carried after a page has remaining <= 1 and a known
\* reset, the sleeps between that page's response and the next page's request
\* are one proactive delay of (reset - now + 0.25 s) clamped to [0, 10 s] (no
\* sleep call when that is 0); remaining 0 and reset = now + 1 give 1.25 s.
C7_ProactiveDelay ==
  (pc = "get" /\ Len(pages) >= 1
   /\ last_remaining.has /\ last_remaining.v <= 1 /\ last_reset.has) =>
     \/ /\ pending_sleeps = <<>>
        /\ \E now \in ClockReadings(TRUE) : ClampedProactiveDelay(last_reset.v, now) = 0
     \/ /\ Len(pending_sleeps) = 1
        /\ pending_sleeps[1].kind = "proactive"
        /\ pending_sleeps[1].secs > 0
        /\ pending_sleeps[1].secs =
             ClampedProactiveDelay(last_reset.v, pending_sleeps[1].now)
        /\ (last_remaining.v = 0 /\ pending_sleeps[1].now = (last_reset.v - 1) * 4) =>
             pending_sleeps[1].secs = 5

\* C7 witness: remaining 0 and reset 1001 at now = 1000.0 s: a 1.25 s sleep
\* waits before the second page's request.
C7_Witness ==
  /\ pc = "get" /\ Len(pages) = 1
  /\ last_remaining = SomeInt(0) /\ last_reset = SomeInt(1001)
  /\ Len(pending_sleeps) = 1
  /\ pending_sleeps[1].now = 4000
  /\ pending_sleeps[1].secs = 5

\* C8: a proactive sleep precedes a page request only if the carried
\* remaining is known and <= 1 and the carried reset is known; in a fetch in
\* which no response carried a rate-limit header and none was a 429 the sleep
\* primitive is never invoked.
C8_NoSleepWithoutCause ==
  /\ \A i \in 1..Len(pending_sleeps) :
       pending_sleeps[i].kind = "proactive" =>
         /\ pc = "get"
         /\ last_remaining.has /\ last_remaining.v <= 1 /\ last_reset.has
  /\ pc = "get" => \A i \in 1..Len(pending_sleeps) : pending_sleeps[i].kind = "proactive"
  /\ (~seen_rate_header /\ ~seen_429) => ~slept

\* C8 witness: two pages without any rate-limit header or 429 were fetched
\* and the sleep primitive was never invoked.
C8_Witness ==
  /\ pc = "returned" /\ Len(pages) = 2
  /\ ~seen_rate_header /\ ~seen_429
  /\ ~slept

\* Every entry of the symbol list is blank: nothing is left after
\* upper-casing, trimming and dropping blank entries.
AllBlank(symbols) ==
  \A i \in 1..Len(symbols) : \A j \in 1..Len(symbols[i]) : symbols[i][j] \in {" ", "\t"}

\* C9: a call whose limit is outside [1, 10000] or whose symbol list is
\* empty after normalisation raises ValueError before any HTTP request or
\* sleep, and nothing is retried; a call that raised ValueError has such
\* arguments or a start/end that is no date.
C9_InputValidation ==
  /\ (pc # "call" /\ (input.limit < 1 \/ input.limit > 10000 \/ AllBlank(input.symbols))) =>
       /\ pc = "raised"
       /\ outcome.kind = "ValueError"
  /\ outcome.kind = "ValueError" =>
       /\ pc = "raised"
       /\ last_request.kind = "none"
       /\ page_attempts = 0
       /\ ~slept
       /\ pending_sleeps = <<>>
       /\ \/ input.limit < 1 \/ input.limit > 10000
          \/ AllBlank(input.symbols)
          \/ input.start.kind \notin {"str", "date", "datetime"}

\* C9 witness: a call with limit 1 and only blank symbols raised ValueError
\* without a request.
C9_Witness ==
  /\ pc = "raised" /\ outcome.kind = "ValueError"
  /\ input.limit = 1 /\ input.symbols = BlankSymbols
  /\ last_request.kind = "none"

(***************************************************************************)
(* Properties of the validator                                             *)
(***************************************************************************)
\* C10: the ok that validate returns is true if and only if the report's
\* duplicates and non_monotonic lists are empty and its ohlc_violations and
\* volume_violations counts are 0, whatever the report says about missing
\* days or a failed calendar lookup, for daily and weekly validation.
C10_OkIffNoStructuralIssue ==
  v_pc = "done" =>
    (v_ok <=> /\ v_report.duplicates = <<>>
              /\ v_report.non_monotonic = <<>>
              /\ v_report.ohlc_violations.count = 0
              /\ v_report.volume_violations.count = 0)

\* C10 witness: daily validation of a sound one-row table found missing
\* trading days and still returned ok.
C10_Witness ==
  /\ v_pc = "done" /\ v_granularity = "daily"
  /\ Len(v_df) = 1
  /\ v_report.missing_days.total > 0
  /\ v_ok

\* The rows of the table that share a (symbol, ts) key
GroupSize(df, symbol, ts) ==
  Cardinality({i \in 1..Len(df) : df[i].symbol = symbol /\ df[i].ts = ts})

\* C11: the report has exactly one duplicates entry for every (symbol, ts)
\* group of more than one row, with the group's row count, and none for a
\* group of one row or for a key no row has; the table is not deduplicated:
\* bars_count counts every row.
C11_DuplicatesPerGroup ==
  v_pc = "done" =>
    /\ \A i \in 1..Len(v_df) :
         LET n == GroupSize(v_df, v_df[i].symbol, v_df[i].ts)
             entries == {k \in 1..Len(v_report.duplicates) :
                           /\ v_report.duplicates[k].symbol = v_df[i].symbol
                           /\ v_report.duplicates[k].ts = v_df[i].ts}
         IN IF n > 1
            THEN /\ Cardinality(entries) = 1
                 /\ \A k \in entries : v_report.duplicates[k].count = n
            ELSE entries = {}
    /\ \A k \in 1..Len(v_report.duplicates) :
         GroupSize(v_df, v_report.duplicates[k].symbol, v_report.duplicates[k].ts) > 1
    /\ v_report.bars_count = Len(v_df)

\* C11 witness: two rows sharing (AAPL, T) were reported as one entry with
\* count 2, and bars_count is still 2.
C11_Witness ==
  /\ v_pc = "done" /\ Len(v_df) = 2
  /\ v_df[1].symbol = "AAPL" /\ v_df[2].symbol = "AAPL" /\ v_df[1].ts = v_df[2].ts
  /\ Len(v_report.duplicates) = 1
  /\ v_report.duplicates[1].count = 2
  /\ v_report.bars_count = 2

\* The rows of a symbol, in table order, have strictly falling timestamps.
TsDescending(df, symbol) ==
  /\ Cardinality(SymbolLabels(df, symbol)) >= 2
  /\ \A i, j \in SymbolLabels(df, symbol) : i < j => RowAt(df, i).ts > RowAt(df, j).ts

\* C12 (as claimed): a table whose rows for a symbol are in ts-descending
\* order reports exactly one non-monotonic example for that symbol.
C12_DescendingReportsOneExample ==
  v_pc = "done" =>
    \A symbol \in TableSymbols :
      TsDescending(v_df, symbol) =>
        Cardinality({k \in 1..Len(v_report.non_monotonic) :
                       v_report.non_monotonic[k].symbol = symbol}) = 1

\* The rows (positions in the table) that fail some OHLC check
OhlcFailing(df) ==
  {i \in 1..Len(df) :
     \/ df[i].high < df[i].open \/ df[i].high < df[i].close
     \/ df[i].low > df[i].open \/ df[i].low > df[i].close
     \/ df[i].high < df[i].low}

\* The reason the priority order gives a failing row
OhlcReason(row) ==
  IF row.high < row.open \/ row.high < row.close THEN "high < max(open, close)"
  ELSE IF row.low > row.open \/ row.low > row.close THEN "low > min(open, close)"
  ELSE "high < low"

\* C13: every row gets at most one OHLC classification, the first of
\* 'high < max(open, close)', 'low > min(open, close)', 'high < low' whose
\* condition it meets; ohlc_violations.count is the number of rows so
\* classified, the samples list them once each in row order, and a row with
\* open=10, close=12, high=11 is reported as 'high < max(open, close)'.
C13_OhlcClassification ==
  v_pc = "done" =>
    LET failing == OhlcFailing(v_df)
        samples == v_report.ohlc_violations.samples
    IN /\ v_report.ohlc_violations.count = Cardinality(failing)
       /\ Len(samples) = Min(Cardinality(failing), SAMPLE_LIMIT)
       /\ \A k \in 1..Len(samples) :
            \E i \in failing :
              /\ Cardinality({j \in failing : j <= i}) = k
              /\ samples[k].symbol = v_df[i].symbol /\ samples[k].ts = v_df[i].ts
              /\ samples[k].open = v_df[i].open /\ samples[k].high = v_df[i].high
              /\ samples[k].low = v_df[i].low /\ samples[k].close = v_df[i].close
              /\ samples[k].issue = OhlcReason(v_df[i])
              /\ (v_df[i].open = 10 /\ v_df[i].close = 12 /\ v_df[i].high = 11) =>
                   samples[k].issue = "high < max(open, close)"

\* C13 witness: a row that fails all three checks and a row with open=10,
\* close=12, high=11 were both reported once, as 'high < max(open, close)'.
C13_Witness ==
  /\ v_pc = "done" /\ Len(v_df) = 2
  /\ v_df[1].high < v_df[1].low /\ v_df[1].low > v_df[1].open
  /\ v_df[2].open = 10 /\ v_df[2].close = 12 /\ v_df[2].high = 11 /\ v_df[2].low = 9
  /\ v_report.ohlc_violations.count = 2
  /\ v_report.ohlc_violations.samples[1].issue = "high < max(open, close)"
  /\ v_report.ohlc_violations.samples[2].issue = "high < max(open, close)"

\* The symbol has a bar on New York day d: a bar between 05:00Z of that
\* day and 05:00Z of the next.
HasBarOnNyDay(df, symbol, d) ==
  \E i \in 1..Len(df) :
    /\ df[i].symbol = symbol
    /\ 86400 * d + 18000 <= df[i].ts /\ df[i].ts < 86400 * (d + 1) + 18000

\* C14: in daily validation with a working calendar every symbol's missing
\* days are the sessions in [start, end] on whose New York date the symbol has
\* no bar; a symbol is listed if and only if it has such a day, and the total
\* is the sum of the lengths of the lists.
C14_MissingDays ==
  (v_pc = "done" /\ v_granularity = "daily" /\ v_calendar = "XNYS" /\ v_df # <<>>) =>
    LET listed == v_report.missing_days.per_symbol
        missing(symbol) == {d \in v_range[1]..v_range[2] :
                              d \in TradingDays /\ ~HasBarOnNyDay(v_df, symbol, d)}
    IN /\ DOMAIN listed \subseteq {v_df[i].symbol : i \in 1..Len(v_df)}
       /\ \A i \in 1..Len(v_df) :
            IF missing(v_df[i].symbol) = {}
            THEN v_df[i].symbol \notin DOMAIN listed
            ELSE /\ v_df[i].symbol \in DOMAIN listed
                 /\ listed[v_df[i].symbol] = missing(v_df[i].symbol)
       /\ v_report.missing_days.total =
            Cardinality({p \in (DOMAIN listed) \X (v_range[1]..v_range[2]) :
                           p[2] \in listed[p[1]]})
       /\ v_report.missing_days.error = NoneStr

\* C14 witness: over five days AAPL, whose only bar is at 04:00Z of day 1
\* (still day 0 in New York), misses the sessions 1, 3 and 4, and SPY, whose
\* only bar is on day 3, misses 0, 1 and 4: a total of 6.
C14_Witness ==
  /\ v_pc = "done" /\ v_granularity = "daily" /\ v_calendar = "XNYS"
  /\ v_range = <<0, 4>> /\ Len(v_df) = 2
  /\ v_df[1].symbol = "AAPL" /\ v_df[1].ts = 100800
  /\ v_df[2].symbol = "SPY" /\ v_df[2].ts = 277200
  /\ v_report.missing_days.per_symbol["AAPL"] = {1, 3, 4}
  /\ v_report.missing_days.per_symbol["SPY"] = {0, 1, 4}
  /\ v_report.missing_days.total = 6

\* C15: when the calendar lookup fails in daily validation the call still
\* returns: the report's missing_days holds the failure reason, a total of 0
\* and no per-symbol entry, and ok and the four structural categories are
\* what the same call gives with a working calendar.
C15_CalendarFailureRecorded ==
  (v_granularity = "daily" /\ v_calendar = "raises" /\ v_df # <<>>) =>
    /\ v_pc = "done"
    /\ v_report.missing_days.error.has
    /\ v_report.missing_days.total = 0
    /\ v_report.missing_days.per_symbol = <<>>
    /\ \E tie \in TieOrders(v_df) :
         LET working == ValidateDailyBars(v_df, v_range[1], v_range[2], "XNYS", tie)
         IN /\ v_ok = working.ok
            /\ v_report.duplicates = working.report.duplicates
            /\ v_report.non_monotonic = working.report.non_monotonic
            /\ v_report.ohlc_violations = working.report.ohlc_violations
            /\ v_report.volume_violations = working.report.volume_violations
            /\ working.report.missing_days.error = NoneStr

\* C15 witness: the lookup failed for a sound table that misses sessions;
\* the call returned ok with the reason recorded and no missing day.
C15_Witness ==
  /\ v_pc = "done" /\ v_granularity = "daily" /\ v_calendar = "raises"
  /\ Len(v_df) = 1 /\ v_range = <<0, 4>>
  /\ v_ok
  /\ v_report.missing_days.error.has
  /\ v_report.missing_days.total = 0

(***************************************************************************)
(* Properties of the normalizer and the resampler                          *)
(***************************************************************************)
\* The Mondays, at 00:00:00 UTC, of the weeks the modelled bars fall into
Mondays == {0, 604800, 1209600, 1814400}

\* The daily rows of a symbol in the week that starts at `monday`
DailyIn(symbol, monday) ==
  {i \in 1..Len(df_daily.rows) :
     /\ df_daily.rows[i].symbol = symbol
     /\ monday <= df_daily.rows[i].ts /\ df_daily.rows[i].ts < monday + 604800}

RECURSIVE DailyVolume(_)
DailyVolume(days) ==
  IF days = {} THEN 0
  ELSE LET i == CHOOSE x \in days : TRUE
       IN df_daily.rows[i].volume + DailyVolume(days \ {i})

\* C16: for every symbol on its own, the weekly table has exactly one row
\* for each Monday-anchored week in which the symbol has a daily row and none
\* for any other week; the row's open is the open of a chronologically first
\* daily row of the week, its close the close of a chronologically last one,
\* its high the greatest daily high, its low the least daily low and its
\* volume the sum of the daily volumes.
C16_WeeklyAggregation ==
  d_pc = "weekly" =>
    /\ \A k \in 1..Len(df_weekly.rows) :
         df_weekly.rows[k].symbol \in TableSymbols /\ df_weekly.rows[k].ts \in Mondays
    /\ \A symbol \in TableSymbols, monday \in Mondays :
         LET days == DailyIn(symbol, monday)
             weeks == {k \in 1..Len(df_weekly.rows) :
                         /\ df_weekly.rows[k].symbol = symbol
                         /\ df_weekly.rows[k].ts = monday}
             day(i) == df_daily.rows[i]
         IN IF days = {}
            THEN weeks = {}
            ELSE /\ Cardinality(weeks) = 1
                 /\ \A k \in weeks :
                      LET w == df_weekly.rows[k]
                      IN /\ \E f \in days : /\ \A i \in days : day(f).ts <= day(i).ts
                                             /\ w.open = day(f).open
                         /\ \E l \in days : /\ \A i \in days : day(i).ts <= day(l).ts
                                             /\ w.close = day(l).close
                         /\ \E i \in days : w.high = day(i).high
                         /\ \A i \in days : day(i).high <= w.high
                         /\ \E i \in days : w.low = day(i).low
                         /\ \A i \in days : w.low <= day(i).low
                         /\ w.volume = DailyVolume(days)

\* C16 witness: AAPL has a daily row in the week of 2024-01-01, none in the
\* two weeks after it and one in the week of 2024-01-22, and SPY has rows in
\* the first two weeks: two weekly rows for each, none for AAPL's empty weeks.
C16_Witness ==
  /\ d_pc = "weekly"
  /\ Len(df_daily.rows) = 4
  /\ Cardinality(DailyIn("AAPL", 0)) = 1
  /\ Cardinality(DailyIn("AAPL", 1814400)) = 1
  /\ Cardinality(DailyIn("SPY", 0)) = 1
  /\ Cardinality(DailyIn("SPY", 604800)) = 1
  /\ Len(df_weekly.rows) = 4

\* C17: every weekly row's ts is a Monday at 00:00:00 UTC, and every daily
\* row is counted in the weekly row of its symbol that is labelled by the
\* latest Monday 00:00 UTC at or before its timestamp, and in no other: a bar
\* at Monday 00:00 belongs to that Monday's week, and so does a bar on the
\* Sunday after it at 23:59:59.
C17_WeekBoundaries ==
  d_pc = "weekly" =>
    /\ \A k \in 1..Len(df_weekly.rows) : df_weekly.rows[k].ts % 604800 = 0
    /\ \A i \in 1..Len(df_daily.rows) :
         LET r == df_daily.rows[i]
             monday == CHOOSE m \in Mondays : m <= r.ts /\ \A n \in Mondays : n <= r.ts => n <= m
         IN \E k \in 1..Len(df_weekly.rows) :
              /\ df_weekly.rows[k].symbol = r.symbol
              /\ df_weekly.rows[k].ts = monday
              /\ df_weekly.rows[k].low <= r.low /\ r.high <= df_weekly.rows[k].high
              /\ df_weekly.rows[k].volume = DailyVolume(DailyIn(r.symbol, monday))
              /\ i \in DailyIn(r.symbol, monday)

\* C17 witness: a bar at Monday 2024-01-01 00:00:00 and a bar at Sunday
\* 2024-01-07 23:59:59 made one weekly row, labelled 2024-01-01 00:00:00.
C17_Witness ==
  /\ d_pc = "weekly"
  /\ Len(df_daily.rows) = 2
  /\ df_daily.rows[1].ts = 0 /\ df_daily.rows[2].ts = 604799
  /\ df_daily.rows[1].symbol = df_daily.rows[2].symbol
  /\ Len(df_weekly.rows) = 1
  /\ df_weekly.rows[1].ts = 0
  /\ df_weekly.rows[1].volume = df_daily.rows[1].volume + df_daily.rows[2].volume

\* The rows are in (symbol ascending, ts ascending) order.
OrderedBySymbolTs(rows) ==
  \A i, j \in 1..Len(rows) :
    i < j => /\ ~(rows[i].symbol = "SPY" /\ rows[j].symbol = "AAPL")
             /\ rows[i].symbol = rows[j].symbol => rows[i].ts <= rows[j].ts

\* C18: the table the normalizer produces and the table to_weekly produces
\* from it are ordered by (symbol ascending, ts ascending), in whatever order
\* the symbols and the bars arrived.
C18_TablesOrdered ==
  /\ d_pc \in {"normalized", "weekly"} => OrderedBySymbolTs(df_daily.rows)
  /\ d_pc = "weekly" => OrderedBySymbolTs(df_weekly.rows)

\* C18 witness: SPY arrived before AAPL and AAPL's later bar before its
\* earlier one; both tables came out ordered.
C18_Witness ==
  /\ d_pc = "weekly"
  /\ Len(d_bars) = 2 /\ d_bars[1].symbol = "SPY" /\ d_bars[2].symbol = "AAPL"
  /\ Len(d_bars[1].bar_list) = 2
  /\ d_bars[1].bar_list[1].t = JStr("2024-01-23T05:00:00Z")
  /\ d_bars[1].bar_list[2].t = JStr("2024-01-01T00:00:00Z")
  /\ Len(df_daily.rows) = 4
  /\ df_daily.rows[1].symbol = "AAPL" /\ df_daily.rows[4].symbol = "SPY"
  /\ df_daily.rows[3].ts = 0 /\ df_daily.rows[4].ts = 1918800
  /\ Len(df_weekly.rows) = 4

\* The raw bars of the dict, as <<item, position>> pairs, that have a timestamp
TimedBars ==
  UNION {{<<a, b>> : b \in {x \in 1..Len(d_bars[a].bar_list) :
                               d_bars[a].bar_list[x].t.k = "str"}} :
           a \in 1..Len(d_bars)}

\* C19: the normalizer's table has exactly one row for every raw bar that
\* has a timestamp and none for a bar without one; when the dict is empty or
\* no bar has a timestamp the table has no row, and it has the full fixed
\* column set in every case.
C19_NormalizerRows ==
  d_pc \in {"normalized", "weekly"} =>
    /\ df_daily.columns = COLUMNS
    /\ Len(df_daily.rows) = Cardinality(TimedBars)
    /\ TimedBars = {} => df_daily.rows = <<>>
    /\ \A b \in TimedBars :
         LET symbol == d_bars[b[1]].symbol
             bar == d_bars[b[1]].bar_list[b[2]]
             same == {c \in TimedBars : /\ d_bars[c[1]].symbol = symbol
                                        /\ d_bars[c[1]].bar_list[c[2]] = bar}
         IN Cardinality({i \in 1..Len(df_daily.rows) :
                           /\ df_daily.rows[i].symbol = symbol
                           /\ df_daily.rows[i].ts = ParseTimestamp(bar.t.v)
                           /\ df_daily.rows[i].open = bar.o.v
                           /\ df_daily.rows[i].close = bar.c.v}) = Cardinality(same)

\* C19 witness: of AAPL's two bars the one without "t" was dropped, and
\* SPY, whose only bar has no "t", has no row.
C19_Witness ==
  /\ d_pc = "normalized"
  /\ Len(d_bars) = 2 /\ d_bars[1].symbol = "AAPL"
  /\ Len(d_bars[1].bar_list) = 2
  /\ d_bars[1].bar_list[1].t = JAbsent
  /\ d_bars[1].bar_list[2].t.k = "str"
  /\ Len(d_bars[2].bar_list) = 1
  /\ Len(df_daily.rows) = 1
  /\ df_daily.rows[1].symbol = "AAPL"

(***************************************************************************)
(* Further properties of the fetch client                                  *)
(***************************************************************************)
\* C20: every HTTP request of a fetch (a page's first request, of the first
\* or a later page, and every retry after a 429) carries the API key id and
\* the secret, and a retry repeats the request that drew the 429: same
\* query, same page token, same headers.
C20_AuthOnEveryRequest ==
  [][/\ last_request'.kind # "none" =>
          /\ last_request'.headers.key_id = "key"
          /\ last_request'.headers.secret_key = "secret"
     /\ pc = "get" => last_request'.kind = "first"
     /\ pc = "retry_get" =>
          /\ last_status = 429
          /\ last_request'.kind = "retry"
          /\ last_request'.params = last_request.params
          /\ last_request'.headers = last_request.headers]_vars

\* C20 witness: the second page, asked for with the token "t1", drew a 429
\* and was retried with the same token and both headers.
C20_Witness ==
  /\ pc = "returned" /\ Len(pages) = 2
  /\ page_429s = 1 /\ page_attempts = 2
  /\ last_request.kind = "retry"
  /\ last_request.params.page_token = SomeStr("t1")
  /\ last_request.headers = [key_id |-> "key", secret_key |-> "secret"]

\* The pages, of those that succeeded, that supply a currency
PagesWithCurrency == {i \in 1..Len(pages) : pages[i].body.currency.k = "str"}

\* The currency of the first page, in page order, that supplies one
FirstCurrency ==
  IF PagesWithCurrency = {} THEN NoneStr
  ELSE LET i == CHOOSE x \in PagesWithCurrency : \A y \in PagesWithCurrency : x <= y
       IN SomeStr(pages[i].body.currency.v)

\* C21: the currency a fetch returns is the currency of the first page, in
\* page order, that supplies one; no later page overwrites it, and it is
\* absent only if no page supplies one.
C21_CurrencyOfFirstPage ==
  /\ currency = FirstCurrency
  /\ pc = "returned" =>
       /\ outcome.currency = FirstCurrency
       /\ ~outcome.currency.has <=> PagesWithCurrency = {}

\* C21 witness: the first page had no currency, the second said USD and the
\* third EUR; the fetch returned USD.
C21_Witness ==
  /\ pc = "returned" /\ Len(pages) = 3
  /\ pages[1].body.currency = JAbsent
  /\ pages[2].body.currency = JStr("USD")
  /\ pages[3].body.currency = JStr("EUR")
  /\ outcome.currency = SomeStr("USD")

\* The token of the latest page ends pagination: empty, null or absent.
LastTokenIsTerminal ==
  /\ Len(pages) >= 1
  /\ PageTokenAt(Len(pages)) \in {JAbsent, JNull, JStr("")}

\* C22 (as claimed): after a page whose next-page token is empty or absent
\* pagination terminates after exactly one additional request beyond the
\* request that produced that token: when the fetch has returned, the page
\* with that token is the last but one.
C22_OneMoreRequestAfterLastToken ==
  pc = "returned" =>
    /\ Len(pages) >= 2
    /\ PageTokenAt(Len(pages) - 1) \in {JAbsent, JNull, JStr("")}

\* C22 (amended): after a page whose next-page token is empty or absent
\* pagination terminates without any additional request: the fetch returns
\* right away, and the request that produced that page, made with the token
\* of the page before it, is the last request of the fetch.
C22_NoRequestAfterLastToken ==
  /\ LastTokenIsTerminal =>
       /\ pc = "returned"
       /\ last_request.params.page_token = pages[Len(pages)].req_token
       /\ last_request.params.page_token = TokenForPage(Len(pages))
       /\ page_attempts = page_429s + 1
  /\ pc = "returned" => LastTokenIsTerminal
  /\ \A i \in 1..(Len(pages) - 1) : IsContinuation(PageTokenAt(i))

\* C22 witness: the only page came with the token "" after a single request,
\* and the fetch returned.
C22_Witness ==
  /\ pc = "returned" /\ Len(pages) = 1
  /\ PageTokenAt(1) = JStr("")
  /\ page_attempts = 1
  /\ last_request.kind = "first"
  /\ last_request.params.page_token = NoneStr

\* x clamped to [0 s, 5 s], in ticks
ClampedRetryDelay(x) == IF x < 0 THEN 0 ELSE IF x > 20 THEN 20 ELSE x

\* The backoff table, in ticks: 0.5, 1, 2, 4 seconds, then 5
BackoffDelay(index) ==
  CASE index = 0 -> 2 [] index = 1 -> 4 [] index = 2 -> 8 [] index = 3 -> 16 [] OTHER -> 20

\* The delay the first-match rule gives the retry sleep s, where the reset
\* strategy measures from the clock value `from`
FirstMatchDelay(s, from) ==
  IF s.retry_after.has /\ FloatParses(s.retry_after.v)
  THEN ClampedRetryDelay(FloatOf(s.retry_after.v))
  ELSE IF s.reset.has /\ IntParses(s.reset.v)
  THEN ClampedRetryDelay(IntOf(s.reset.v) * 4 - from)
  ELSE BackoffDelay(s.attempt_index)

\* C23 (as claimed): the retry delay is chosen by first match: a numeric
\* Retry-After clamped to [0, 5]; else, for an integer X-RateLimit-Reset,
\* (reset - now) clamped to [0, 5]; else the backoff table; an unparsable
\* header falls through, and every delay lies in [0, 5].
C23_RetryDelayFromNow ==
  pc = "retry_get" =>
    /\ pending_sleeps[1].secs = FirstMatchDelay(pending_sleeps[1], pending_sleeps[1].now)
    /\ 0 <= pending_sleeps[1].secs /\ pending_sleeps[1].secs <= 20

\* C23 (amended): as claimed, except that the reset strategy measures from
\* the clock reading truncated to whole seconds: (reset - int(now)) clamped
\* to [0, 5].
C23_RetryDelayFromWholeSeconds ==
  pc = "retry_get" =>
    /\ pending_sleeps[1].secs =
         FirstMatchDelay(pending_sleeps[1], (pending_sleeps[1].now \div 4) * 4)
    /\ 0 <= pending_sleeps[1].secs /\ pending_sleeps[1].secs <= 20
    /\ pending_sleeps[1].attempt_index = page_429s - 1
    /\ pending_sleeps[1].strategy =
         (IF pending_sleeps[1].retry_after.has /\ FloatParses(pending_sleeps[1].retry_after.v)
          THEN "Retry-After"
          ELSE IF pending_sleeps[1].reset.has /\ IntParses(pending_sleeps[1].reset.v)
          THEN "X-RateLimit-Reset"
          ELSE "backoff")

\* C23 witness: a 429 whose Retry-After is unparsable and whose reset is
\* 1001, received at 1000.5 s: the retry waits 1001 - 1000 = 1 s.
C23_Witness ==
  /\ pc = "retry_get"
  /\ pending_sleeps[1].retry_after = SomeStr("x")
  /\ pending_sleeps[1].reset = SomeStr("1001")
  /\ pending_sleeps[1].now = 4002
  /\ pending_sleeps[1].secs = 4
  /\ pending_sleeps[1].strategy = "X-RateLimit-Reset"

\* C24: the rate-limit headers of every response, including every 429 that
\* is then retried, are captured into the carried remaining/reset state that
\* governs the proactive delay before the next page request.
C24_EveryResponseCaptured ==
  (pc = "get" /\ Len(pages) >= 1) =>
    /\ last_remaining = heard_rate.remaining
    /\ last_reset = heard_rate.reset

\* The latest page request ended in a provider error: a final status other
\* than 200, or a 200 whose body is not JSON.
PageRequestFailed ==
  /\ last_status # 0
  /\ pc # "retry_get"
  /\ (last_status # 200 \/ ~last_json)

\* C25: a fetch is all-or-nothing: when a page request ends in a provider
\* error the call raises and hands back no bars, whatever earlier pages had
\* accumulated; every BarsResponse returned covers all pages from the first
\* up to and including one with no next-page token.
C25_AllOrNothing ==
  /\ PageRequestFailed =>
       /\ pc = "raised"
       /\ outcome.kind = "ProviderError"
  /\ pc = "raised" =>
       /\ outcome.kind \in {"ProviderError", "ValueError"}
       /\ outcome.bars = <<>>
       /\ outcome.currency = NoneStr
  /\ pc = "returned" =>
       /\ outcome.kind = "BarsResponse"
       /\ ~PageRequestFailed
       /\ LastTokenIsTerminal
       /\ pages[1].req_token = NoneStr
       /\ \A i \in 1..(Len(pages) - 1) :
            /\ IsContinuation(PageTokenAt(i))
            /\ pages[i + 1].req_token = SomeStr(PageTokenAt(i).v)
       /\ IsConcatenationOfPages(outcome.bars)
  /\ outcome.kind = "BarsResponse" => pc = "returned"

\* C25 witness: two pages had succeeded and AAPL had three bars accumulated
\* when the third page request failed with a 500: the call raised, without
\* bars.
C25_Witness ==
  /\ pc = "raised" /\ Len(pages) = 2
  /\ last_status = 500
  /\ AAPL \in DOMAIN merged_bars /\ Len(merged_bars[AAPL]) = 3
  /\ outcome.kind = "ProviderError" /\ outcome.status_code = 500
  /\ outcome.bars = <<>>

C27_SleepsBetweenRequests ==
  /\ Len(pending_sleeps) <= 1
  /\ last_request.kind = "none" => pending_sleeps = <<>>
  /\ pc = "retry_get" =>
       /\ last_status = 429
       /\ Len(pending_sleeps) = 1
       /\ pending_sleeps[1].kind = "retry"
       /\ pending_sleeps[1].secs >= 0
  /\ pc = "get" =>
       \A i \in 1..Len(pending_sleeps) :
         /\ pending_sleeps[i].kind = "proactive"
         /\ pending_sleeps[i].secs > 0
         /\ last_status = 200
  /\ pc \in {"call", "returned", "raised"} => pending_sleeps = <<>>
  /\ page_retry_sleeps = page_429s - (IF pc = "raised" /\ last_status = 429 THEN 1 ELSE 0)

\* C27 witness: the carried state (remaining 1, reset 1020) would open the
\* proactive gate, the second page drew a 429 with Retry-After 0, and the
\* only sleep before the retry is the retry sleep of 0 seconds.
C27_Witness ==
  /\ pc = "retry_get" /\ Len(pages) = 1
  /\ last_remaining = SomeInt(1) /\ last_reset = SomeInt(1020)
  /\ Len(pending_sleeps) = 1
  /\ pending_sleeps[1].kind = "retry"
  /\ pending_sleeps[1].secs = 0
  /\ pending_sleeps[1].retry_after = SomeStr("0")

\* The raw header h is present and parses as an integer.
HeaderIsInt(h) == h.has /\ IntParses(h.v)

\* C28: the carried remaining and reset are updated independently, each only
\* when its own header is present and parses as an integer: the final
\* response of a page request sets each value whose header parses and leaves
\* the other as carried, no step changes a value otherwise, and a value once
\* set never reverts to absent.
C28_IndependentCarry ==
  [][/\ last_remaining' # last_remaining =>
          /\ HeaderIsInt(last_headers'.remaining)
          /\ last_remaining' = SomeInt(IntOf(last_headers'.remaining.v))
     /\ last_reset' # last_reset =>
          /\ HeaderIsInt(last_headers'.reset)
          /\ last_reset' = SomeInt(IntOf(last_headers'.reset.v))
     /\ (pc \in {"get", "retry_get"} /\ pc' # "retry_get") =>
          /\ HeaderIsInt(last_headers'.remaining) =>
               last_remaining' = SomeInt(IntOf(last_headers'.remaining.v))
          /\ HeaderIsInt(last_headers'.reset) =>
               last_reset' = SomeInt(IntOf(last_headers'.reset.v))
     /\ last_remaining.has => last_remaining'.has
     /\ last_reset.has => last_reset'.has]_vars

\* C28 witness: the second page's response had an unparsable remaining and
\* reset 1001; the carried remaining 0 is the one an earlier response gave,
\* and the two together give the proactive sleep before the third page.
C28_Witness ==
  /\ pc = "get" /\ Len(pages) = 2
  /\ last_headers = [remaining |-> SomeStr("x"), reset |-> SomeStr("1001")]
  /\ last_remaining = SomeInt(0) /\ last_reset = SomeInt(1001)
  /\ Len(pending_sleeps) = 1
  /\ pending_sleeps[1].kind = "proactive"

(***************************************************************************)
(* Further properties of the validator                                     *)
(***************************************************************************)
\* The positions of the report's non_monotonic entries for a symbol
NonMonotonicFor(report, symbol) ==
  {k \in 1..Len(report.non_monotonic) : report.non_monotonic[k].symbol = symbol}

\* Two rows of the symbol share a timestamp.
SharesTs(df, symbol) ==
  \E i, j \in 1..Len(df) :
    /\ i # j
    /\ df[i].symbol = symbol /\ df[j].symbol = symbol
    /\ df[i].ts = df[j].ts

\* C29: non_monotonic has at most one entry per symbol, and a symbol has one
\* only if two of its rows share a ts, that is only if it also has an entry
\* in duplicates; rows that are merely out of order give no entry.
C29_NonMonotonicOnlyForDuplicates ==
  v_pc = "done" =>
    \A symbol \in TableSymbols :
      /\ Cardinality(NonMonotonicFor(v_report, symbol)) <= 1
      /\ \A k \in NonMonotonicFor(v_report, symbol) :
           /\ SharesTs(v_df, symbol)
           /\ \E d \in 1..Len(v_report.duplicates) :
                /\ v_report.duplicates[d].symbol = symbol
                /\ v_report.duplicates[d].ts = v_report.non_monotonic[k].example_ts_next
           /\ v_report.non_monotonic[k].example_ts_prev =
                v_report.non_monotonic[k].example_ts_next
      /\ ~SharesTs(v_df, symbol) => NonMonotonicFor(v_report, symbol) = {}

\* C29 witness: AAPL's two rows are in falling ts order and were validated:
\* the report has no non_monotonic entry and no duplicates.
C29_Witness ==
  /\ v_pc = "done" /\ Len(v_df) = 2
  /\ v_df[1].symbol = "AAPL" /\ v_df[2].symbol = "AAPL"
  /\ v_df[1].ts > v_df[2].ts
  /\ v_report.non_monotonic = <<>>
  /\ v_report.duplicates = <<>>

\* C30: no row of numeric values is ever reported as 'high < low': every
\* OHLC violation reported carries 'high < max(open, close)' or
\* 'low > min(open, close)', also for the rows whose high is below their low,
\* all of which are reported.
C30_HighBelowLowNeverReported ==
  v_pc = "done" =>
    /\ \A k \in 1..Len(v_report.ohlc_violations.samples) :
         /\ v_report.ohlc_violations.samples[k].issue # "high < low"
         /\ v_report.ohlc_violations.samples[k].issue
              \in {"high < max(open, close)", "low > min(open, close)"}
    /\ v_report.ohlc_violations.count >=
         Cardinality({i \in 1..Len(v_df) : v_df[i].high < v_df[i].low})
    /\ \A i \in 1..Len(v_df) :
         v_df[i].high < v_df[i].low =>
           \E k \in 1..Len(v_report.ohlc_violations.samples) :
             /\ v_report.ohlc_violations.samples[k].symbol = v_df[i].symbol
             /\ v_report.ohlc_violations.samples[k].ts = v_df[i].ts
             /\ v_report.ohlc_violations.samples[k].high = v_df[i].high
             /\ v_report.ohlc_violations.samples[k].low = v_df[i].low

\* C30 witness: a one-row table whose row has high 9 below low 11 was
\* validated, and the row is reported as 'high < max(open, close)'.
C30_Witness ==
  /\ v_pc = "done" /\ Len(v_df) = 1
  /\ v_df[1].high = 9 /\ v_df[1].low = 11
  /\ v_report.ohlc_violations.count = 1
  /\ v_report.ohlc_violations.samples[1].issue = "high < max(open, close)"
  /\ ~v_ok

====
